---- MODULE Spec2Model ----
(***************************************************************************)
(* Model of the TIA_Db layout generator and buffer accessor of AWETA:      *)
(*   parser.py  : _join_name_parts, generate_struct_format                 *)
(*   utlis.py   : BufferMapping.__getitem__/__setitem__,                   *)
(*                S7DataBlock.fields_to_mapping/from_fields/pull           *)
(*   parser.py  : resolve_data_types, parse_db_file, skip_nested_levels    *)
(*   manager.py : ProjectManager.load_project (restoring the data block)   *)
(*   datablock.py : _place_fields, S7DataBlock.from_definition_file,       *)
(*                S7DataBlock.from_definition_and_buffer_file              *)
(*   s7mini.py  : get_s7_string, set_s7_string                             *)
(* Python values are records [kind, hi, lo, s]; byte buffers are sequences *)
(* of 0..255 (offset o of the code is index o+1 here).  tree is the parsed *)
(* definition (TYPES and DATA_BLOCK), source the bytes of an external      *)
(* buffer source, threads the position of every thread inside __setitem__. *)
(*   view.py    : View.tick, belt_has_box, cell_occupied                   *)
(*   box_generator.py, belt_item.py, exit_item.py : the items of the scene *)
(* boxes, belts, exits, downstream, generator, generator_blocked and       *)
(* sim_speed are the fields of the View and of its items, VARS the shared  *)
(* variable table, items the number of box items created.                  *)
(***************************************************************************)
EXTENDS Integers, Sequences, FiniteSets, TLC

VARIABLES pc, name_type_pairs, fields, size, mapping, db_size, buffer, last, nops,
          tree, source, threads,
          boxes, belts, exits, downstream, generator, generator_blocked, sim_speed, VARS,
          items

vars == <<pc, name_type_pairs, fields, size, mapping, db_size, buffer, last, nops,
         tree, source, threads,
         boxes, belts, exits, downstream, generator, generator_blocked, sim_speed, VARS,
         items>>

\* the variables of the data block, and those of the conveyor view
dbvars == <<pc, name_type_pairs, fields, size, mapping, db_size, buffer, nops, tree, source,
           threads>>

viewvars == <<boxes, belts, exits, downstream, generator, generator_blocked, sim_speed, VARS,
             items>>

(* ------------------------------- bounds -------------------------------- *)
\* longest leading run of consecutive booleans in a generated definition
MaxRun == 18
\* longest trailing run of booleans in a generated definition
MaxTail == 2
\* longest boolean run in the small definitions the accessor runs on
MaxSmallRun == 1
\* the boolean run of the long definitions the accessor runs on
MaxAccRun == 17
\* number of Set calls in one run of the accessor
MaxSets == 1

\* most threads that call Set on one data block, one call each
MaxThreads == 2
\* number of polls of the device while the threads run
MaxPolls == 1

\* longest maximum length of a string field
MaxStringLen == 2

\* most box items created in one run of the view
MaxBoxes == 3
\* most boxes offered to an exit block that is ticked on its own
MaxExitBoxes == 3

(* --------------------------- helper arithmetic ------------------------- *)
Min(a, b) == IF a < b THEN a ELSE b

Pow2(n) == 2 ^ n

\* (value >> k) & 1
BitOf(value, k) == (value \div Pow2(k)) % 2

(* ----------------------------- type table ------------------------------ *)
\* parser.py s7_dtype_to_struct_mapping: S7 type name -> struct format char
s7_dtype_to_struct_mapping ==
    [t \in {"Real", "DReal", "Int", "DInt", "Byte", "Word", "DWord", "Bool",
            "Char", "S5Time", "Time", "Date", "Time_of_Day", "UDInt"} |->
        CASE t = "Real" -> "f"
          [] t = "DReal" -> "d"
          [] t = "Int" -> "h"
          [] t = "DInt" -> "i"
          [] t = "Byte" -> "B"
          [] t = "Word" -> "H"
          [] t = "DWord" -> "I"
          [] t = "Bool" -> "?"
          [] t = "Char" -> "c"
          [] t = "S5Time" -> "H"
          [] t = "Time" -> "i"
          [] t = "Date" -> "H"
          [] t = "Time_of_Day" -> "I"
          [] t = "UDInt" -> "i"]

\* struct.calcsize of one format character
calcsize(format_char) ==
    CASE format_char = "?" -> 1
      [] format_char = "B" -> 1
      [] format_char = "c" -> 1
      [] format_char = "h" -> 2
      [] format_char = "H" -> 2
      [] format_char = "i" -> 4
      [] format_char = "I" -> 4
      [] format_char = "f" -> 4
      [] format_char = "d" -> 8

(* ----------------------------- field names ----------------------------- *)
\* a path segment: a member name, or an array index "[i]" (arr = TRUE)
Seg(s) == [arr |-> FALSE, s |-> s]

RECURSIVE JoinFold(_, _, _)
\* the loop of _join_name_parts: result is the list of joined parts so far
JoinFold(parts, k, result) ==
    IF k > Len(parts) THEN result
    ELSE IF parts[k].arr
         THEN JoinFold(parts, k + 1,
                       [result EXCEPT ![Len(result)] = result[Len(result)] \o parts[k].s])
         ELSE JoinFold(parts, k + 1, Append(result, parts[k].s))

RECURSIVE StrJoin(_, _)
\* delimiter.join(result)
StrJoin(strs, delimiter) ==
    IF Len(strs) = 0 THEN ""
    ELSE IF Len(strs) = 1 THEN strs[1]
    ELSE strs[1] \o delimiter \o StrJoin(Tail(strs), delimiter)

_join_name_parts(parts, delimiter) ==
    IF Len(parts) = 0 THEN ""
    ELSE StrJoin(JoinFold(parts, 2, <<parts[1].s>>), delimiter)

\* i.name[:-1]
PrefixOf(name) == SubSeq(name, 1, Len(name) - 1)

(* --------------------------- layout generator -------------------------- *)
BoolGroupField(bools) ==
    [name_or_names |-> bools, is_list |-> TRUE, type |-> "Bool", format |-> "H"]

ScalarField(name, type) ==
    [name_or_names |-> <<name>>, is_list |-> FALSE, type |-> type,
     format |-> s7_dtype_to_struct_mapping[type]]

\* a flush test that forgets that a non-boolean field ends the pending group
FlushNeeded_IgnoresType(st, i) ==
    st.bool_counter > 0
    /\ (PrefixOf(i.name) # st.prev_prefix \/ st.bool_counter = 17)

\* a flush test that forgets that a change of prefix ends the pending group
FlushNeeded_IgnoresPrefix(st, i) ==
    st.bool_counter > 0
    /\ (i.type # "Bool" \/ st.bool_counter = 17)

\* the flush test of generate_struct_format (parser.py line 286)
FlushNeeded(st, i) ==
    st.bool_counter > 0
    /\ (i.type # "Bool" \/ PrefixOf(i.name) # st.prev_prefix \/ st.bool_counter = 17)

\* one iteration of the loop of generate_struct_format over pair i
GenStep(st, i) ==
    LET flushed == IF FlushNeeded(st, i)
                   THEN [st EXCEPT !.fields = Append(st.fields, BoolGroupField(st.bools)),
                                   !.bool_counter = 0,
                                   !.bools = <<>>]
                   ELSE st
        placed == IF i.type = "Bool"
                  THEN [flushed EXCEPT !.bool_counter = flushed.bool_counter + 1,
                                       !.bools = Append(flushed.bools,
                                                        _join_name_parts(i.name, "."))]
                  ELSE IF i.type \in DOMAIN s7_dtype_to_struct_mapping
                  THEN [flushed EXCEPT !.fields = Append(flushed.fields,
                                            ScalarField(_join_name_parts(i.name, "."), i.type))]
                  ELSE [flushed EXCEPT !.err = "KeyError"]
    IN [placed EXCEPT !.prev_prefix = PrefixOf(i.name)]

RECURSIVE GenLoop(_, _, _)
GenLoop(pairs, k, st) ==
    IF k > Len(pairs) \/ st.err # "none" THEN st
    ELSE GenLoop(pairs, k + 1, GenStep(st, pairs[k]))

RECURSIVE SumSizes(_, _)
\* struct.calcsize(">" + formats): no padding, the sum of the widths
SumSizes(fs, k) ==
    IF k > Len(fs) THEN 0 ELSE calcsize(fs[k].format) + SumSizes(fs, k + 1)

\* generate_struct_format: [fields, size, err]
generate_struct_format(pairs) ==
    LET st0 == [fields |-> <<>>, bool_counter |-> 0, prev_prefix |-> <<>>,
                bools |-> <<>>, err |-> "none"]
        st == GenLoop(pairs, 1, st0)
        fs == IF st.bool_counter > 0
              THEN Append(st.fields, BoolGroupField(st.bools))
              ELSE st.fields
    IN IF st.err # "none"
       THEN [fields |-> <<>>, size |-> 0, err |-> st.err]
       ELSE [fields |-> fs, size |-> SumSizes(fs, 1), err |-> "none"]

(* ---------------------------- Python values ---------------------------- *)
\* a Python value: kind in {"none","bool","int","str","bytes"}; an int is
\* hi * 65536 + lo with lo in 0..65535; bytes of length hi whose byte is lo
NoneVal == [kind |-> "none", hi |-> 0, lo |-> 0, s |-> ""]

PyBool(b) == [kind |-> "bool", hi |-> 0, lo |-> IF b THEN 1 ELSE 0, s |-> ""]

PyInt(hi, lo) == [kind |-> "int", hi |-> hi, lo |-> lo, s |-> ""]

PyStr(s) == [kind |-> "str", hi |-> 0, lo |-> 0, s |-> s]

PyBytes1(b) == [kind |-> "bytes", hi |-> 1, lo |-> b, s |-> ""]

\* Python truth value of a value (the test of `if value:`)
Truthy(value) ==
    CASE value.kind = "none" -> FALSE
      [] value.kind = "bool" -> value.lo = 1
      [] value.kind = "int" -> value.hi # 0 \/ value.lo # 0
      [] value.kind = "str" -> value.s # ""
      [] value.kind = "bytes" -> value.hi > 0

\* Python ==: a bool compares as the int 0 or 1
PyEq(a, b) ==
    IF a.kind \in {"bool", "int"} /\ b.kind \in {"bool", "int"}
    THEN a.hi = b.hi /\ a.lo = b.lo
    ELSE a = b

(* ------------------------- struct.pack / unpack ------------------------ *)
\* the range test of struct.pack for an integer format
InRange(format_char, value) ==
    CASE format_char = "B" -> value.hi = 0 /\ value.lo <= 255
      [] format_char = "H" -> value.hi = 0
      [] format_char = "h" -> (value.hi = 0 /\ value.lo <= 32767)
                              \/ (value.hi = -1 /\ value.lo >= 32768)
      [] format_char = "I" -> value.hi >= 0 /\ value.hi <= 65535
      [] format_char = "i" -> value.hi >= -32768 /\ value.hi <= 32767

\* the four big-endian two's-complement bytes of hi * 65536 + lo
Bytes4(value) ==
    <<(value.hi % 65536) \div 256, value.hi % 256, value.lo \div 256, value.lo % 256>>

\* a packer that wraps an out-of-range integer to the width of the format
struct_pack_be_Wrapping(format_char, value) ==
    IF format_char = "c"
    THEN IF value.kind = "bytes" /\ value.hi = 1
         THEN [err |-> "none", bytes |-> <<value.lo>>]
         ELSE [err |-> "struct.error", bytes |-> <<>>]
    ELSE IF value.kind \in {"int", "bool"}
         THEN [err |-> "none",
               bytes |-> SubSeq(Bytes4(value), 5 - calcsize(format_char), 4)]
         ELSE [err |-> "struct.error", bytes |-> <<>>]

\* struct.pack(">" + format_char, value): [err, bytes]
struct_pack_be(format_char, value) ==
    IF format_char = "c"
    THEN IF value.kind = "bytes" /\ value.hi = 1
         THEN [err |-> "none", bytes |-> <<value.lo>>]
         ELSE [err |-> "struct.error", bytes |-> <<>>]
    ELSE IF value.kind \in {"int", "bool"} /\ InRange(format_char, value)
         THEN [err |-> "none",
               bytes |-> SubSeq(Bytes4(value), 5 - calcsize(format_char), 4)]
         ELSE [err |-> "struct.error", bytes |-> <<>>]

\* an unpacker that reads every integer as unsigned (no sign extension)
struct_unpack_be_Unsigned(format_char, bytes) ==
    IF Len(bytes) # calcsize(format_char)
    THEN [err |-> "struct.error", ret |-> NoneVal]
    ELSE CASE format_char = "c" -> [err |-> "none", ret |-> PyBytes1(bytes[1])]
           [] format_char = "B" -> [err |-> "none", ret |-> PyInt(0, bytes[1])]
           [] format_char \in {"H", "h"} ->
                [err |-> "none", ret |-> PyInt(0, 256 * bytes[1] + bytes[2])]
           [] format_char \in {"I", "i"} ->
                [err |-> "none",
                 ret |-> PyInt(256 * bytes[1] + bytes[2], 256 * bytes[3] + bytes[4])]

\* struct.unpack(">" + format_char, bytes)[0]: [err, ret]
struct_unpack_be(format_char, bytes) ==
    IF Len(bytes) # calcsize(format_char)
    THEN [err |-> "struct.error", ret |-> NoneVal]
    ELSE CASE format_char = "c" -> [err |-> "none", ret |-> PyBytes1(bytes[1])]
           [] format_char = "B" -> [err |-> "none", ret |-> PyInt(0, bytes[1])]
           [] format_char = "H" ->
                [err |-> "none", ret |-> PyInt(0, 256 * bytes[1] + bytes[2])]
           [] format_char = "h" ->
                [err |-> "none",
                 ret |-> PyInt(IF bytes[1] >= 128 THEN -1 ELSE 0, 256 * bytes[1] + bytes[2])]
           [] format_char = "I" ->
                [err |-> "none",
                 ret |-> PyInt(256 * bytes[1] + bytes[2], 256 * bytes[3] + bytes[4])]
           [] format_char = "i" ->
                [err |-> "none",
                 ret |-> PyInt(IF bytes[1] >= 128
                               THEN 256 * bytes[1] + bytes[2] - 65536
                               ELSE 256 * bytes[1] + bytes[2],
                               256 * bytes[3] + bytes[4])]

\* a word packer that writes the most significant byte first
struct_pack_le_H_BigEndian(n) ==
    IF n >= 0 /\ n <= 65535
    THEN [err |-> "none", bytes |-> <<n \div 256, n % 256>>]
    ELSE [err |-> "struct.error", bytes |-> <<>>]

\* struct.pack("<H", n) of a non-negative Python int n: [err, bytes]
struct_pack_le_H(n) ==
    IF n >= 0 /\ n <= 65535
    THEN [err |-> "none", bytes |-> <<n % 256, n \div 256>>]
    ELSE [err |-> "struct.error", bytes |-> <<>>]

\* struct.unpack("<H", bytes)[0]: [err, n]
struct_unpack_le_H(bytes) ==
    IF Len(bytes) # 2
    THEN [err |-> "struct.error", n |-> 0]
    ELSE [err |-> "none", n |-> bytes[1] + 256 * bytes[2]]

(* ------------------------------- slices -------------------------------- *)
\* buf[a:b] of a bytearray, 0 <= a <= b
Slice(buf, a, b) == SubSeq(buf, Min(a, Len(buf)) + 1, Min(b, Len(buf)))

\* buf[a:b] = data of a bytearray, 0 <= a <= b
SliceAssign(buf, a, b, data) ==
    SubSeq(buf, 1, Min(a, Len(buf))) \o data \o SubSeq(buf, Min(b, Len(buf)) + 1, Len(buf))

(* ------------------------------ accessor ------------------------------- *)
BitAddress(address, bit) ==
    [is_tuple |-> TRUE, address |-> address, bit |-> bit, format |-> "H"]

ByteAddress(address, format) ==
    [is_tuple |-> FALSE, address |-> address, bit |-> -1, format |-> format]

\* mapping[name] = info of a dict
DictPut(m, name, info) ==
    [k \in DOMAIN m \cup {name} |-> IF k = name THEN info ELSE m[k]]

RECURSIVE MapBits(_, _, _, _)
\* for bit, name in enumerate(field.name_or_names): mapping[name] = ((address, bit), format)
MapBits(m, names, bit, address) ==
    IF bit >= Len(names) THEN m
    ELSE MapBits(DictPut(m, names[bit + 1], BitAddress(address, bit)), names, bit + 1, address)

RECURSIVE MapFields(_, _, _, _)
MapFields(fs, k, m, address) ==
    IF k > Len(fs) THEN [mapping |-> m, size |-> address]
    ELSE LET field == fs[k]
             m2 == IF field.is_list
                   THEN MapBits(m, field.name_or_names, 0, address)
                   ELSE DictPut(m, field.name_or_names[1], ByteAddress(address, field.format))
         IN MapFields(fs, k + 1, m2, address + calcsize(field.format))

RECURSIVE MapFields_Aligned(_, _, _, _)
\* a mapper that puts every field on an even byte offset
MapFields_Aligned(fs, k, m, address) ==
    IF k > Len(fs) THEN [mapping |-> m, size |-> address]
    ELSE LET field == fs[k]
             even == address + (address % 2)
             m2 == IF field.is_list
                   THEN MapBits(m, field.name_or_names, 0, even)
                   ELSE DictPut(m, field.name_or_names[1], ByteAddress(even, field.format))
         IN MapFields_Aligned(fs, k + 1, m2, even + calcsize(field.format))

fields_to_mapping_Aligned(fs) == MapFields_Aligned(fs, 1, <<>>, 0)

\* S7DataBlock.fields_to_mapping: [mapping, size]
fields_to_mapping(fs) == MapFields(fs, 1, <<>>, 0)

\* a lookup that falls back to the first byte for an unknown name
Lookup_Default(m, name) ==
    [err |-> "none", info |-> IF name \in DOMAIN m THEN m[name] ELSE ByteAddress(0, "B")]

\* self.data[name]: [err, info]
Lookup(m, name) ==
    IF name \in DOMAIN m
    THEN [err |-> "none", info |-> m[name]]
    ELSE [err |-> "KeyError", info |-> ByteAddress(0, "B")]

\* format_char == "H" and isinstance(offset, tuple)
IsBitAddress(info) == info.format = "H" /\ info.is_tuple

\* BufferMapping.__getitem__: [err, ret]
getitem(buf, m, name) ==
    LET l == Lookup(m, name)
        info == l.info
    IN IF l.err # "none" THEN [err |-> l.err, ret |-> NoneVal]
       ELSE IF IsBitAddress(info)
       THEN LET u == struct_unpack_le_H(Slice(buf, info.address, info.address + 2)) IN
            IF u.err # "none" THEN [err |-> u.err, ret |-> NoneVal]
            ELSE [err |-> "none", ret |-> PyBool(BitOf(u.n, info.bit) = 1)]
       ELSE struct_unpack_be(info.format,
                             Slice(buf, info.address, info.address + calcsize(info.format)))

\* a bit update that builds the word from the new bit alone
WithBit_Overwrite(current_value, bit, on) == IF on THEN Pow2(bit) ELSE 0

\* current_value |= 1 << bit  /  current_value &= ~(1 << bit)
WithBit(current_value, bit, on) ==
    IF on
    THEN IF BitOf(current_value, bit) = 1 THEN current_value ELSE current_value + Pow2(bit)
    ELSE IF BitOf(current_value, bit) = 1 THEN current_value - Pow2(bit) ELSE current_value

\* a bit branch that rejects every value that is not a bool
SetBit_TypeChecked(buf, info, value) ==
    LET u == struct_unpack_le_H(Slice(buf, info.address, info.address + 2))
        p == struct_pack_le_H(WithBit(u.n, info.bit, Truthy(value)))
    IN IF value.kind # "bool" THEN [err |-> "TypeError", buffer |-> buf]
       ELSE IF u.err # "none" THEN [err |-> u.err, buffer |-> buf]
       ELSE IF p.err # "none" THEN [err |-> p.err, buffer |-> buf]
       ELSE [err |-> "none",
             buffer |-> SliceAssign(buf, info.address, info.address + 2, p.bytes)]

\* the bit branch of BufferMapping.__setitem__: [err, buffer]
SetBit(buf, info, value) ==
    LET u == struct_unpack_le_H(Slice(buf, info.address, info.address + 2))
        p == struct_pack_le_H(WithBit(u.n, info.bit, Truthy(value)))
    IN IF u.err # "none" THEN [err |-> u.err, buffer |-> buf]
       ELSE IF p.err # "none" THEN [err |-> p.err, buffer |-> buf]
       ELSE [err |-> "none",
             buffer |-> SliceAssign(buf, info.address, info.address + 2, p.bytes)]

\* a scalar branch that zeroes the slot before it packs the value
SetScalar_ClearsFirst(buf, info, value) ==
    LET p == struct_pack_be(info.format, value)
        cleared == SliceAssign(buf, info.address, info.address + calcsize(info.format),
                               [i \in 1..calcsize(info.format) |-> 0])
    IN IF p.err # "none" THEN [err |-> p.err, buffer |-> cleared]
       ELSE [err |-> "none",
             buffer |-> SliceAssign(cleared, info.address,
                                    info.address + calcsize(info.format), p.bytes)]

\* the scalar branch of BufferMapping.__setitem__: [err, buffer]
SetScalar(buf, info, value) ==
    LET p == struct_pack_be(info.format, value) IN
    IF p.err # "none" THEN [err |-> p.err, buffer |-> buf]
    ELSE [err |-> "none",
          buffer |-> SliceAssign(buf, info.address,
                                 info.address + calcsize(info.format), p.bytes)]

\* BufferMapping.__setitem__: [err, buffer]
setitem(buf, m, name, value) ==
    LET l == Lookup(m, name) IN
    IF l.err # "none" THEN [err |-> l.err, buffer |-> buf]
    ELSE IF IsBitAddress(l.info) THEN SetBit(buf, l.info, value)
    ELSE SetScalar(buf, l.info, value)

(* -------------------------- concurrent callers ------------------------- *)
\* the threads that call db[name] = value on one data block
Threads == 1..MaxThreads

\* a thread outside __setitem__; inside it, pc is "pack" after the word has
\* been read (line 45) and changed (lines 48-51), and "store" once the value
\* has been packed and self.buffer loaded for the slice assignment (line 53
\* or 56).  stale: self.buffer was rebound after the thread loaded it.
\* alone: no other operation has taken a step since this call began.
IdleThread ==
    [pc |-> "idle", name |-> "", value |-> NoneVal, current_value |-> 0, packed |-> <<>>,
     stale |-> FALSE, alone |-> TRUE]

NoThreads == [t \in Threads |-> IdleThread]

InCall(th) == th.pc \in {"pack", "store"}

\* a scheduler under which a step of one caller goes unnoticed by the others
Disturb_Unnoticed(ths, t) == ths

\* a step of thread t (0: the poll timer) falls inside the calls of the others
Disturb(ths, t) ==
    [o \in Threads |-> IF o # t /\ InCall(ths[o]) THEN [ths[o] EXCEPT !.alone = FALSE]
                       ELSE ths[o]]

\* self.buffer = ...: the threads that hold the old bytearray will write to it
Rebind(ths) ==
    [o \in Threads |-> IF ths[o].pc = "store" THEN [ths[o] EXCEPT !.stale = TRUE] ELSE ths[o]]

(* ------------------------------ S7 strings ----------------------------- *)
\* a str is the sequence of the code points of its characters
\* max_len=None of set_s7_string
NoMaxLen == -1

\* value.encode("latin1", errors="ignore"): the characters above 255 are dropped
EncodeLatin1(value) == SelectSeq(value, LAMBDA c : c <= 255)

\* bytes.decode("latin1"): every byte is the character of its code
DecodeLatin1(bytes) == bytes

Zeros(n) == [k \in 1..n |-> 0]

\* get_s7_string(buf, byte_index): [err, ret]
get_s7_string(buf, byte_index) ==
    IF byte_index + 1 >= Len(buf) THEN [err |-> "IndexError", ret |-> <<>>]
    ELSE LET max_len == buf[byte_index + 1]
             cur_len == Min(buf[byte_index + 2], max_len)
             start == byte_index + 2
         IN [err |-> "none", ret |-> DecodeLatin1(Slice(buf, start, start + cur_len))]

\* the tail of set_s7_string from line 104 on, max_len known: [err, buffer]
StoreString(buf, byte_index, data, max_len, pad) ==
    LET cur == Min(Len(data), max_len)
        start == byte_index + 2
        b1 == [buf EXCEPT ![byte_index + 1] = max_len % 256]
        b2 == [b1 EXCEPT ![byte_index + 2] = cur % 256]
        b3 == SliceAssign(b2, start, start + cur, SubSeq(data, 1, cur))
        b4 == IF pad /\ start + max_len > start + cur
              THEN SliceAssign(b3, start + cur, start + max_len, Zeros(max_len - cur))
              ELSE b3
    IN IF byte_index >= Len(buf) THEN [err |-> "IndexError", buffer |-> buf]
       ELSE IF byte_index + 1 >= Len(buf) THEN [err |-> "IndexError", buffer |-> b1]
       ELSE [err |-> "none", buffer |-> b4]

\* a Set that leaves the unused content bytes as they were
set_s7_string_NoPad(buf, byte_index, value, max_len) ==
    IF max_len = NoMaxLen /\ byte_index >= Len(buf)
    THEN [err |-> "IndexError", buffer |-> buf]
    ELSE StoreString(buf, byte_index, EncodeLatin1(value),
                     IF max_len = NoMaxLen THEN buf[byte_index + 1] ELSE max_len, FALSE)

\* set_s7_string(buf, byte_index, value, max_len): [err, buffer]
set_s7_string(buf, byte_index, value, max_len) ==
    IF max_len = NoMaxLen /\ byte_index >= Len(buf)
    THEN [err |-> "IndexError", buffer |-> buf]
    ELSE StoreString(buf, byte_index, EncodeLatin1(value),
                     IF max_len = NoMaxLen THEN buf[byte_index + 1] ELSE max_len, TRUE)

(* ----------------------------- conveyor view --------------------------- *)
\* sim_speed is kept in tenths (50 is 5.0) and the position t of a box in
\* thousandths of the belt length (999 is 0.999, 1000 is 1.0); a box is
\* [item, belt, t], item being the identity of its graphics item
Held == 999

End == 1000

\* int(16 * self.sim_speed)
DtMs(speed) == (16 * speed) \div 10

\* speed_per_sec * dt = (0.25 * sim_speed) * (0.016 * sim_speed)
StepT(speed) == (4 * speed * speed) \div 100

\* cur_t + speed_per_sec * dt in float arithmetic, at the speeds of SimSpeeds:
\* ten steps of 0.1 from 0.0 sum to 0.9999999999999999, which is below 1.0
\* and, like 0.999, in the last cell; every other sum is kept to the
\* thousandth
FloatAdd(t, step) == IF t + step = End THEN Held ELSE t + step

\* int(max(0.0, min(0.999, t)) * max(1, width_ticks))
CellOf(t, width_ticks) ==
    LET t_clamped == IF t < 0 THEN 0 ELSE Min(t, Held)
        ticks == IF width_ticks < 1 THEN 1 ELSE width_ticks
    IN (t_clamped * ticks) \div 1000

\* View.belt_has_box
belt_has_box(bxs, belt) == \E k \in 1..Len(bxs) : bxs[k].belt = belt

\* View.cell_occupied
cell_occupied(bxs, bts, belt, idx) ==
    \E k \in 1..Len(bxs) :
        bxs[k].belt = belt /\ CellOf(bxs[k].t, bts[belt].width_ticks) = idx

\* [dst for (src, dst) in self.downstream if src is node][0], "none" if empty
FirstDownstream(ds, node) ==
    LET next_nodes == SelectSeq(ds, LAMBDA e : e[1] = node) IN
    IF next_nodes = <<>> THEN "none" ELSE next_nodes[1][2]

\* VARS.get(name, False) if name else False
VarGet(vs, name) == IF name # "" /\ name \in DOMAIN vs THEN vs[name] ELSE FALSE

\* a slot of an exit block: None, or {"elapsed": n} of the box `item`
NoSlot == [elapsed |-> -1, item |-> 0]

Slot(elapsed, item) == [elapsed |-> elapsed, item |-> item]

\* ExitBlock.can_accept
can_accept(ex) == \E i \in 1..Len(ex.slots) : ex.slots[i] = NoSlot

\* ExitBlock.update_sensor_visual: [exit, VARS]
ExitSensors(ex, vs) ==
    LET in_state == IF ex.ft_in_enabled
                    THEN Len(ex.slots) > 0 /\ ex.slots[1] # NoSlot ELSE ex.ft_in_state
        out_state == IF ex.ft_out_enabled
                     THEN Len(ex.slots) > 0 /\ ex.slots[Len(ex.slots)] # NoSlot
                     ELSE ex.ft_out_state
        vs1 == IF ex.ft_in_enabled /\ ex.ft_in_var # ""
               THEN DictPut(vs, ex.ft_in_var, in_state) ELSE vs
        vs2 == IF ex.ft_out_enabled /\ ex.ft_out_var # ""
               THEN DictPut(vs1, ex.ft_out_var, out_state) ELSE vs1
    IN [exit |-> [ex EXCEPT !.ft_in_state = in_state, !.ft_out_state = out_state],
        VARS |-> vs2]

\* ExitBlock.add_box: the box goes to the leftmost free slot; [exit, VARS]
add_box(ex, item, vs) ==
    IF can_accept(ex)
    THEN LET i == CHOOSE i \in 1..Len(ex.slots) :
                      ex.slots[i] = NoSlot /\ \A j \in 1..(i - 1) : ex.slots[j] # NoSlot
         IN ExitSensors([ex EXCEPT !.slots[i] = Slot(0, item)], vs)
    ELSE [exit |-> ex, VARS |-> vs]

RECURSIVE ShiftLoop(_, _)
\* for i in range(len(slots) - 2, -1, -1): move slots[i] right if the next is
\* empty (i counts from 1 here)
ShiftLoop(slots, i) ==
    IF i < 1 THEN slots
    ELSE IF slots[i] # NoSlot /\ slots[i + 1] = NoSlot
         THEN ShiftLoop([slots EXCEPT ![i + 1] = slots[i], ![i] = NoSlot], i - 1)
         ELSE ShiftLoop(slots, i - 1)

\* an exit that takes the box out of the leftmost occupied slot when it is due
DwellStep_Leftmost(slots, dt_ms, dwell_ms) ==
    LET n == Len(slots)
        last_slot == slots[n]
        elapsed == last_slot.elapsed + dt_ms
        i == CHOOSE i \in 1..n : slots[i] # NoSlot /\ \A j \in 1..(i - 1) : slots[j] = NoSlot
    IN IF last_slot = NoSlot THEN slots
       ELSE IF elapsed >= dwell_ms THEN [slots EXCEPT ![i] = NoSlot]
       ELSE [slots EXCEPT ![n] = Slot(elapsed, last_slot.item)]

\* the dwell timer of the rightmost slot (exit_item.py lines 311-316)
DwellStep(slots, dt_ms, dwell_ms) ==
    LET n == Len(slots)
        last_slot == slots[n]
        elapsed == last_slot.elapsed + dt_ms
    IN IF last_slot = NoSlot THEN slots
       ELSE IF elapsed >= dwell_ms THEN [slots EXCEPT ![n] = NoSlot]
       ELSE [slots EXCEPT ![n] = Slot(elapsed, last_slot.item)]

\* ExitBlock.tick(dt_ms): [exit, VARS]
ExitTick(ex, dt_ms, vs) ==
    IF ex.slots = <<>> THEN [exit |-> ex, VARS |-> vs]
    ELSE LET dwelled == DwellStep(ex.slots, dt_ms, ex.dwell_ms)
             accum == ex._adv_accum + dt_ms
             due == accum >= ex.advance_ms
             shifted == IF due THEN ShiftLoop(dwelled, Len(dwelled) - 1) ELSE dwelled
         IN ExitSensors([ex EXCEPT !.slots = shifted,
                                   !._adv_accum = IF due THEN 0 ELSE accum], vs)

\* Belt.update_sensor_visual: the VARS after it
BeltSensors(bt, vs) ==
    LET vs1 == IF bt.ft_in_enabled /\ bt.ft_in_var # ""
               THEN DictPut(vs, bt.ft_in_var, bt.ft_in_state) ELSE vs
    IN IF bt.ft_out_enabled /\ bt.ft_out_var # ""
       THEN DictPut(vs1, bt.ft_out_var, bt.ft_out_state) ELSE vs1

\* BoxGenerator.ready_to_spawn
ready_to_spawn(gen) == gen.elapsed_ms >= gen.interval_ms

\* BoxGenerator.tick(dt_ms)
GeneratorTick(gen, dt_ms) ==
    IF ~gen.running THEN gen
    ELSE IF gen.blocked THEN gen
    ELSE [gen EXCEPT !.elapsed_ms = Min(gen.elapsed_ms + dt_ms, gen.interval_ms)]

\* the state View.tick works on: v.boxes, v.belts, v.exits, v.generator,
\* v.generator_blocked, v.VARS, v.items (graphics items created so far) and
\* what this tick did: v.spawned (boxes created), v.handed (the boxes given
\* to an exit by next_obj.add_box, as <<item, exit>>)
IsBelt(v, node) == node \in DOMAIN v.belts

IsExit(v, node) == node \in DOMAIN v.exits

\* a spawn that puts the new box on the belt without a look at its cells
\* (used with a can_spawn_now that is always true)
CanSpawnNow_Always(v, first_dst) == IsBelt(v, first_dst) \/ IsExit(v, first_dst)

\* can_spawn_now of View.tick (lines 619-625)
CanSpawnNow(v, first_dst) ==
    IF IsBelt(v, first_dst) THEN ~cell_occupied(v.boxes, v.belts, first_dst, 0)
    ELSE IF IsExit(v, first_dst) THEN can_accept(v.exits[first_dst])
    ELSE FALSE

\* the box is created and put on the belt or in the exit (lines 636-650 and
\* 657-671); elapsed_ms is reset in every case that creates a box
SpawnBox(v, first_dst) ==
    IF IsBelt(v, first_dst)
    THEN [v EXCEPT !.boxes = Append(v.boxes,
                                    [item |-> v.items + 1, belt |-> first_dst, t |-> 0]),
                   !.items = v.items + 1,
                   !.spawned = v.spawned + 1,
                   !.generator.elapsed_ms = 0]
    ELSE IF IsExit(v, first_dst)
    THEN LET r == add_box(v.exits[first_dst], v.items + 1, v.VARS) IN
         [v EXCEPT !.exits[first_dst] = r.exit,
                   !.VARS = r.VARS,
                   !.items = v.items + 1,
                   !.spawned = v.spawned + 1,
                   !.generator.elapsed_ms = 0]
    ELSE v

\* the generator part of View.tick (lines 613-675)
GeneratorStep(v, ds, dt_ms) ==
    LET first_dst == FirstDownstream(ds, "gen")
        can_spawn_now == CanSpawnNow(v, first_dst)
        blocked == v.generator_blocked \/ (~can_spawn_now /\ ready_to_spawn(v.generator))
        v1 == [v EXCEPT !.generator = GeneratorTick([v.generator EXCEPT !.blocked = blocked],
                                                     dt_ms)]
    IN IF v1.generator_blocked /\ can_spawn_now
       THEN LET v2 == SpawnBox(v1, first_dst) IN
            [v2 EXCEPT !.generator_blocked = FALSE, !.generator.blocked = FALSE,
                       !.generator.elapsed_ms = 0]
       ELSE IF ~v1.generator_blocked /\ ready_to_spawn(v1.generator)
       THEN IF can_spawn_now THEN SpawnBox(v1, first_dst)
            ELSE [v1 EXCEPT !.generator_blocked = TRUE, !.generator.blocked = TRUE]
       ELSE v1

\* the index in v.boxes of the box whose graphics item is `item`, 0 if gone
IndexOfItem(bxs, item) ==
    IF \E k \in 1..Len(bxs) : bxs[k].item = item
    THEN CHOOSE k \in 1..Len(bxs) : bxs[k].item = item
    ELSE 0

\* self.boxes.remove(bx)
RemoveAt(bxs, k) == SubSeq(bxs, 1, k - 1) \o SubSeq(bxs, k + 1, Len(bxs))

\* a motor step that moves the box on without a look at the cell it enters
Advance_NoCheck(v, k, step) == FloatAdd(v.boxes[k].t, step)

\* the motor part of the loop body (lines 692-710): the new t of box k
Advance(v, k, step) ==
    LET bx == v.boxes[k]
        width_ticks == v.belts[bx.belt].width_ticks
        cur_cell == CellOf(bx.t, width_ticks)
        new_t == FloatAdd(bx.t, step)
        new_cell == CellOf(new_t, width_ticks)
    IN IF new_cell # cur_cell
       THEN IF ~cell_occupied(v.boxes, v.belts, bx.belt, new_cell) THEN new_t ELSE bx.t
       ELSE new_t

\* lines 752-756: FT In / FT Out of `belt` from the box k that was just moved
FtUpdate(v, k, belt) ==
    LET width_ticks == v.belts[belt].width_ticks
        tick_idx == (v.boxes[k].t * width_ticks) \div 1000
        bt == [v.belts[belt] EXCEPT
                  !.ft_in_state = (tick_idx <= 0 /\ belt_has_box(v.boxes, belt)),
                  !.ft_out_state = (tick_idx >= width_ticks - 1)]
    IN [v EXCEPT !.belts[belt] = bt, !.VARS = BeltSensors(bt, v.VARS)]

\* an end-of-belt rule that drops the box when the exit has no free slot
EndOfBelt_Drops(v, k, ds) ==
    LET bx == v.boxes[k]
        next_obj == FirstDownstream(ds, bx.belt)
    IN IF IsBelt(v, next_obj)
       THEN IF ~belt_has_box(v.boxes, next_obj)
            THEN [v |-> [v EXCEPT !.boxes[k].belt = next_obj, !.boxes[k].t = 0],
                  continue |-> FALSE, belt |-> next_obj]
            ELSE [v |-> [v EXCEPT !.boxes[k].t = Held], continue |-> FALSE, belt |-> bx.belt]
       ELSE IF IsExit(v, next_obj)
       THEN IF can_accept(v.exits[next_obj])
            THEN LET r == add_box(v.exits[next_obj], bx.item, v.VARS) IN
                 [v |-> [v EXCEPT !.exits[next_obj] = r.exit, !.VARS = r.VARS,
                                  !.boxes = RemoveAt(v.boxes, k),
                                  !.handed = Append(v.handed, <<bx.item, next_obj>>)],
                  continue |-> TRUE, belt |-> bx.belt]
            ELSE [v |-> [v EXCEPT !.boxes = RemoveAt(v.boxes, k)],
                  continue |-> TRUE, belt |-> bx.belt]
       ELSE [v |-> [v EXCEPT !.boxes[k].t = Held], continue |-> TRUE, belt |-> bx.belt]

\* "Reached end?" (lines 712-737) for box k with t >= 1.0: [v, continue, belt]
EndOfBelt(v, k, ds) ==
    LET bx == v.boxes[k]
        next_obj == FirstDownstream(ds, bx.belt)
    IN IF IsBelt(v, next_obj)
       THEN IF ~belt_has_box(v.boxes, next_obj)
            THEN [v |-> [v EXCEPT !.boxes[k].belt = next_obj, !.boxes[k].t = 0],
                  continue |-> FALSE, belt |-> next_obj]
            ELSE [v |-> [v EXCEPT !.boxes[k].t = Held], continue |-> FALSE, belt |-> bx.belt]
       ELSE IF IsExit(v, next_obj)
       THEN IF can_accept(v.exits[next_obj])
            THEN LET r == add_box(v.exits[next_obj], bx.item, v.VARS) IN
                 [v |-> [v EXCEPT !.exits[next_obj] = r.exit, !.VARS = r.VARS,
                                  !.boxes = RemoveAt(v.boxes, k),
                                  !.handed = Append(v.handed, <<bx.item, next_obj>>)],
                  continue |-> TRUE, belt |-> bx.belt]
            ELSE [v |-> [v EXCEPT !.boxes[k].t = Held], continue |-> FALSE, belt |-> bx.belt]
       ELSE [v |-> [v EXCEPT !.boxes[k].t = Held], continue |-> TRUE, belt |-> bx.belt]

\* the body of `for bx in list(self.boxes)` for the box `item`
MoveBox(v, item, ds, step) ==
    LET k == IndexOfItem(v.boxes, item)
        bx == v.boxes[k]
        motor_on == VarGet(v.VARS, v.belts[bx.belt].motor_var)
        v1 == IF motor_on THEN [v EXCEPT !.boxes[k].t = Advance(v, k, step)] ELSE v
    IN IF k = 0 THEN v
       ELSE IF v1.boxes[k].t >= End
       THEN LET r == EndOfBelt(v1, k, ds) IN
            IF r.continue THEN r.v ELSE FtUpdate(r.v, k, r.belt)
       ELSE FtUpdate(v1, k, bx.belt)

RECURSIVE MoveLoop(_, _, _, _, _)
\* for bx in list(self.boxes): the boxes of the copy, in list order
MoveLoop(v, snapshot, n, ds, step) ==
    IF n > Len(snapshot) THEN v
    ELSE MoveLoop(MoveBox(v, snapshot[n].item, ds, step), snapshot, n + 1, ds, step)

RECURSIVE ExitsLoop(_, _, _)
\* for every ExitBlock of the scene: tick(int(16 * self.sim_speed))
ExitsLoop(v, todo, dt_ms) ==
    IF todo = {} THEN v
    ELSE LET e == CHOOSE e \in todo : TRUE
             r == ExitTick(v.exits[e], dt_ms, v.VARS)
         IN ExitsLoop([v EXCEPT !.exits[e] = r.exit, !.VARS = r.VARS], todo \ {e}, dt_ms)

\* View.tick on the state v0 with the links ds at speed `speed`
ViewTick(v0, ds, speed) ==
    LET v1 == GeneratorStep([v0 EXCEPT !.spawned = 0, !.handed = <<>>], ds, DtMs(speed))
        v2 == MoveLoop(v1, v1.boxes, 1, ds, StepT(speed))
    IN ExitsLoop(v2, DOMAIN v2.exits, DtMs(speed))

(* ----------------------------- parsed tree ----------------------------- *)
\* a node of the parsed definition: a string leaf (a type name), a dict of
\* members in declaration order, or an array descriptor with the texts of
\* its bounds (sequences of characters) and the name of its element type
Leaf(type) ==
    [kind |-> "str", type |-> type, members |-> <<>>, lower |-> <<>>, upper |-> <<>>]

Struct(members) ==
    [kind |-> "dict", type |-> "", members |-> members, lower |-> <<>>, upper |-> <<>>]

Array(lower, upper, array_type) ==
    [kind |-> "array", type |-> array_type, members |-> <<>>, lower |-> lower,
     upper |-> upper]

Member(name, node) == [name |-> name, node |-> node]

NoTree == [types |-> <<>>, data |-> Leaf("")]

(* ----------------------------- array bounds ---------------------------- *)
IsDigit(c) == c \in {"0", "1", "2", "3", "4", "5", "6", "7", "8", "9"}

DigitVal(c) ==
    CASE c = "0" -> 0 [] c = "1" -> 1 [] c = "2" -> 2 [] c = "3" -> 3 [] c = "4" -> 4
      [] c = "5" -> 5 [] c = "6" -> 6 [] c = "7" -> 7 [] c = "8" -> 8 [] c = "9" -> 9

RECURSIVE IntOfDigits(_, _, _)
\* int() of a string of decimal digits
IntOfDigits(text, k, acc) ==
    IF k > Len(text) THEN acc ELSE IntOfDigits(text, k + 1, 10 * acc + DigitVal(text[k]))

\* try: int(text)  except ValueError: int(''.join(filter(str.isdigit, text)) or "1")
ArrayBound(text) ==
    IF Len(text) > 0 /\ \A k \in 1..Len(text) : IsDigit(text[k])
    THEN IntOfDigits(text, 1, 0)
    ELSE LET digits == SelectSeq(text, IsDigit) IN
         IF digits = <<>> THEN 1 ELSE IntOfDigits(digits, 1, 0)

(* ---------------------------- type resolver ---------------------------- *)
\* the frames the interpreter leaves to the recursion of resolve_data_types
\* before it raises RecursionError (the recursion limit less the depth of the
\* caller; kept small here)
MaxFrames == 10

\* a resolver result: the (path, type) pairs yielded, or the error raised
Yield(pairs) == [pairs |-> pairs, err |-> "none"]

Raise(err) == [pairs |-> <<>>, err |-> err]

\* the pairs of r followed by those of rest; an error of either is raised
Then(r, rest) ==
    IF r.err # "none" THEN r
    ELSE IF rest.err # "none" THEN rest
    ELSE Yield(r.pairs \o rest.pairs)

RECURSIVE resolve_data_types(_, _, _, _)
RECURSIVE ResolveArray(_, _, _, _, _, _)
RECURSIVE ResolveMembers(_, _, _, _, _)

\* an array loop that stops one index short: range(lower, upper)
ResolveArray_Exclusive(types, prefix, array_type, idx, upper, depth) ==
    IF idx >= upper THEN Yield(<<>>)
    ELSE LET r == resolve_data_types(types,
                      Append(prefix, [arr |-> TRUE, s |-> "[" \o ToString(idx) \o "]"]),
                      array_type, depth + 1)
         IN IF r.err # "none" THEN r
            ELSE Then(r, ResolveArray(types, prefix, array_type, idx + 1, upper, depth))

\* for idx in range(lower, upper + 1): yield from resolve(prefix + [f"[{idx}]"], array_type)
ResolveArray(types, prefix, array_type, idx, upper, depth) ==
    IF idx > upper THEN Yield(<<>>)
    ELSE LET r == resolve_data_types(types,
                      Append(prefix, [arr |-> TRUE, s |-> "[" \o ToString(idx) \o "]"]),
                      array_type, depth + 1)
         IN IF r.err # "none" THEN r
            ELSE Then(r, ResolveArray(types, prefix, array_type, idx + 1, upper, depth))

\* a member loop that walks the members from the last to the first
ResolveMembers_Reversed(types, prefix, members, k, depth) ==
    IF k > Len(members) THEN Yield(<<>>)
    ELSE LET m == members[Len(members) + 1 - k]
             r == resolve_data_types(types, Append(prefix, Seg(m.name)), m.node, depth + 1)
         IN IF r.err # "none" THEN r
            ELSE Then(r, ResolveMembers(types, prefix, members, k + 1, depth))

\* for k, v in d.items(): yield from resolve(prefix + [k], v)
ResolveMembers(types, prefix, members, k, depth) ==
    IF k > Len(members) THEN Yield(<<>>)
    ELSE LET r == resolve_data_types(types, Append(prefix, Seg(members[k].name)),
                                     members[k].node, depth + 1)
         IN IF r.err # "none" THEN r
            ELSE Then(r, ResolveMembers(types, prefix, members, k + 1, depth))

\* resolve_data_types(types, prefix, d) running in frame number depth.  A
\* string leaf is tested against the TYPE table and else yielded as it is:
\* the branch that unpacks "DTL" is taken only by a value that is neither a
\* dict nor a str, and no such value equals "DTL".
resolve_data_types(types, prefix, d, depth) ==
    IF depth > MaxFrames THEN Raise("RecursionError")
    ELSE CASE d.kind = "array" ->
                LET lower == ArrayBound(d.lower)
                    upper == ArrayBound(d.upper)
                    array_type == IF d.type \in DOMAIN types THEN types[d.type]
                                  ELSE Leaf(d.type)
                IN ResolveArray(types, prefix, array_type, lower, upper, depth)
           [] d.kind = "dict" -> ResolveMembers(types, prefix, d.members, 1, depth)
           [] d.kind = "str" ->
                IF d.type \in DOMAIN types
                THEN resolve_data_types(types, prefix, types[d.type], depth + 1)
                ELSE Yield(<<[name |-> prefix, type |-> d.type]>>)

(* ----------------------------- parse_db_file --------------------------- *)
\* how many leading levels parse_db_file drops from the field names
nesting_depth_to_skip == 1

\* name.split(".") of a member name of the definitions
SplitDot(s) == IF s = "A.B" THEN <<"A", "B">> ELSE <<s>>

RECURSIVE NamePieces(_, _, _)
\* _join_name_parts(parts).split("."): an index is fused to the piece before it
NamePieces(parts, k, result) ==
    IF k > Len(parts) THEN result
    ELSE IF parts[k].arr /\ Len(result) > 0
         THEN NamePieces(parts, k + 1,
                         [result EXCEPT ![Len(result)] = result[Len(result)] \o parts[k].s])
         ELSE NamePieces(parts, k + 1, result \o SplitDot(parts[k].s))

\* ".".join(name.split(".")[nesting_depth_to_skip:]), name given by its pieces
skip_nested_levels(pieces, depth_to_skip) ==
    StrJoin(SubSeq(pieces, depth_to_skip + 1, Len(pieces)), ".")

\* skip_nested_levels of a flattened name of the resolved pairs
SkippedName(name, pairs) ==
    LET k == CHOOSE k \in 1..Len(pairs) : _join_name_parts(pairs[k].name, ".") = name
    IN skip_nested_levels(NamePieces(pairs[k].name, 1, <<>>), nesting_depth_to_skip)

\* the fields of the format with the leading levels dropped from every name
SkipFields(fs, pairs) ==
    [g \in 1..Len(fs) |->
        [fs[g] EXCEPT !.name_or_names =
            [j \in 1..Len(fs[g].name_or_names) |->
                SkippedName(fs[g].name_or_names[j], pairs)]]]

\* the pairs parse_db_file keeps: a non-empty path (every type here is a str)
ResolvedPairs(pairs) == SelectSeq(pairs, LAMBDA p : Len(p.name) > 0)

\* parse_db_file on the parsed tree: [pairs, fields, size, err]
parse_db_file(t) ==
    LET r == resolve_data_types(t.types, <<>>, t.data, 1) IN
    IF r.err # "none"
    THEN [pairs |-> <<>>, fields |-> <<>>, size |-> 0, err |-> r.err]
    ELSE LET resolved_pairs == ResolvedPairs(r.pairs)
             result == generate_struct_format(resolved_pairs)
         IN IF result.err # "none"
            THEN [pairs |-> resolved_pairs, fields |-> <<>>, size |-> 0, err |-> result.err]
            ELSE [pairs |-> resolved_pairs,
                  fields |-> SkipFields(result.fields, resolved_pairs),
                  size |-> result.size, err |-> "none"]

(* ------------------------ minimal data block --------------------------- *)
\* datablock.py _Field
_Field(name, ftype, byte, bit) == [name |-> name, ftype |-> ftype, byte |-> byte, bit |-> bit]

RECURSIVE PlaceLoop(_, _, _, _, _)
\* the placing pass of _place_fields over spec[k..]: [fields, byte_cursor]
PlaceLoop(spec, k, placed, byte_cursor, bit_cursor) ==
    IF k > Len(spec) THEN [fields |-> placed, byte_cursor |-> byte_cursor]
    ELSE IF spec[k].ftype = "Bool"
    THEN PlaceLoop(spec, k + 1,
                   Append(placed, _Field(spec[k].name, "Bool", byte_cursor, bit_cursor)),
                   IF bit_cursor + 1 >= 8 THEN byte_cursor + 1 ELSE byte_cursor,
                   IF bit_cursor + 1 >= 8 THEN 0 ELSE bit_cursor + 1)
    ELSE LET aligned == IF bit_cursor # 0 THEN byte_cursor + 1 ELSE byte_cursor IN
         PlaceLoop(spec, k + 1, Append(placed, _Field(spec[k].name, "Int", aligned, -1)),
                   aligned + 2, 0)

\* _place_fields: [fields, size]; the size is rounded up to 2, then to 4 bytes
_place_fields(spec) ==
    LET r == PlaceLoop(spec, 1, <<>>, 0, 0)
        word == IF r.byte_cursor % 2 # 0 THEN r.byte_cursor + 1 ELSE r.byte_cursor
        quad == IF word % 4 # 0 THEN word + (4 - (word % 4)) ELSE word
    IN [fields |-> r.fields, size |-> IF quad > 1 THEN quad ELSE 1]

\* self._fields = {f.name: f for f in fields}
FieldDict(fs) ==
    [n \in {fs[k].name : k \in 1..Len(fs)} |->
        fs[CHOOSE k \in 1..Len(fs) :
              fs[k].name = n /\ \A o \in (k + 1)..Len(fs) : fs[o].name # n]]

\* a fit that copies a longer source whole: obj.buffer[:] = data
FitBuffer_NoTruncate(buf, data) ==
    IF Len(data) < Len(buf)
    THEN SliceAssign(buf, 0, Len(data), data)
    ELSE SliceAssign(buf, 0, Len(buf), data)

\* the fit of from_definition_and_buffer_file (pad or truncate)
FitBuffer(buf, data) ==
    IF Len(data) < Len(buf)
    THEN SliceAssign(buf, 0, Len(data), data)
    ELSE SliceAssign(buf, 0, Len(buf), Slice(data, 0, Len(buf)))

(* ------------------------- definitions (inputs) ------------------------ *)
\* path prefixes of the declared fields: the block itself, and an element
\* of an array of structs inside it
Prefix1 == <<Seg("DB")>>

Prefix2 == <<Seg("DB"), Seg("A"), [arr |-> TRUE, s |-> "[" \o ToString(1) \o "]"]>>

Prefixes == {Prefix1, Prefix2}

ScalarTypes == DOMAIN s7_dtype_to_struct_mapping \ {"Bool"}

\* the scalar types the accessor runs on: one per integer or character
\* struct format (the accessor sees a field's format only; no floats)
AccTypes == {"Int", "DInt", "Byte", "Word", "DWord", "Char"}

\* the NameType of the k-th declared field
Pair(prefix, k, type) == [name |-> Append(prefix, Seg("f" \o ToString(k))), type |-> type]

\* n consecutive booleans under one prefix, numbered from k0 + 1
BoolRun(prefix, k0, n) == [j \in 1..n |-> Pair(prefix, k0 + j, "Bool")]

\* a definition: n1 booleans under p1, an optional scalar, n2 booleans under
\* p2, and an optional last boolean under the prefix `last`
PairsOf(n1, p1, mid, n2, p2, last_prefix) ==
    BoolRun(p1, 0, n1)
    \o (IF mid = "none" THEN <<>> ELSE <<Pair(Prefix1, n1 + 1, mid)>>)
    \o BoolRun(p2, n1 + 1, n2)
    \o (IF last_prefix = <<>> THEN <<>> ELSE BoolRun(last_prefix, n1 + 1 + n2, 1))

Definitions ==
    {PairsOf(n1, p1, mid, n2, p2, p3) :
        n1 \in 0..MaxRun, p1 \in Prefixes, mid \in {"none"} \cup ScalarTypes,
        n2 \in 0..MaxTail, p2 \in Prefixes, p3 \in {<<>>} \cup Prefixes}

AccDefinitions ==
    {PairsOf(n1, Prefix1, mid, n2, Prefix2, <<>>) :
        n1 \in 0..MaxSmallRun, mid \in {"none"} \cup AccTypes, n2 \in 0..MaxSmallRun}
    \cup {PairsOf(0, Prefix1, "Int", MaxAccRun, Prefix2, <<>>)}

\* the values handed to Set
Values ==
    {PyBool(TRUE), PyBool(FALSE), PyInt(-1, 65535), PyInt(0, 0), PyInt(0, 258), PyInt(0, 32768),
     PyInt(65536, 0), PyStr("x"), PyStr(""), PyBytes1(65)}

\* the images a device read can return: byte i (from 0) of image p
DevicePatterns == {85, 255}

DeviceImage(p, n) == [i \in 1..n |-> (p * i) % 256]

\* the names handed to Get and Set: the declared ones and an undeclared one
ProbeNames == DOMAIN mapping \cup {"nope"}

(* --------------------------- trees (inputs) ---------------------------- *)
\* most members of the data block's struct
MaxMembers == 2
\* largest numeric upper bound of an array
MaxUpper == 3

\* the text of the numeric literal i, 0 <= i <= 9
Numeral(i) == <<ToString(i)>>

\* the TYPE declarations: two structs, one nested in the other ...
PlainTypes ==
    [n \in {"Sensor", "Outer"} |->
        IF n = "Sensor"
        THEN Struct(<<Member("A", Leaf("Bool")), Member("B", Leaf("Int"))>>)
        ELSE Struct(<<Member("h", Leaf("Int")), Member("in", Leaf("Sensor")),
                      Member("g", Leaf("Bool"))>>)]

\* ... and with them a type that names itself as a member type and two types
\* that name each other, one as the element type of an array
LoopTypes ==
    [n \in {"Sensor", "Outer", "Loop", "Cyc1", "Cyc2"} |->
        CASE n \in {"Sensor", "Outer"} -> PlainTypes[n]
          [] n = "Loop" -> Struct(<<Member("x", Leaf("Loop"))>>)
          [] n = "Cyc1" -> Struct(<<Member("a", Leaf("Int")), Member("nxt", Leaf("Cyc2"))>>)
          [] n = "Cyc2" -> Struct(<<Member("arr", Array(Numeral(1), Numeral(2), "Cyc1"))>>)]

\* texts of upper bounds that are not numeric literals
SymbolicBounds == {<<"N">>, <<"N", "2">>, <<"N", "0">>}

\* the member declarations a data block is put together from
Declarations ==
    {Member("a", Leaf("Bool")), Member("b", Leaf("Bool")), Member("i", Leaf("Int")),
     Member("w", Leaf("DWord")), Member("t", Leaf("DTL")),
     Member("s", Leaf("Sensor")), Member("n", Leaf("Outer")),
     Member("c", Leaf("Loop")), Member("d", Leaf("Cyc1")),
     Member("u", Leaf("Foo")),
     Member("A.B", Leaf("Int")), Member("A", Struct(<<Member("B", Leaf("Bool"))>>))}
    \cup {Member("Sensor", Array(Numeral(l), Numeral(u), "Sensor")) :
            l \in 0..1, u \in 1..MaxUpper}
    \cup {Member("Sensor", Array(Numeral(1), text, "Sensor")) : text \in SymbolicBounds}
    \cup {Member("X", Array(Numeral(1), text, "Bool")) :
            text \in {Numeral(2), <<"N">>, <<"1", "8">>}}
    \cup {Member("ua", Array(Numeral(1), text, "Foo")) : text \in {Numeral(2), <<"N", "0">>}}
    \cup {Member("ca", Array(Numeral(1), text, "Loop")) : text \in {Numeral(1), <<"N", "0">>}}

\* the member lists of a struct: up to MaxMembers declarations, names distinct
MemberLists ==
    {ms \in UNION {[1..n -> Declarations] : n \in 1..MaxMembers} :
        \A j, k \in 1..Len(ms) : j # k => ms[j].name # ms[k].name}

\* the parsed definitions: DATA_BLOCK "DB" with its struct, and the TYPES
Trees ==
    {[types |-> types, data |-> Struct(<<Member("DB", Struct(ms))>>)] :
        types \in {PlainTypes, LoopTypes}, ms \in MemberLists}

(* ---------------------- minimal blocks (inputs) ------------------------ *)
\* most fields of a minimal definition
MaxMiniFields == 3
\* longest external byte source
MaxSource == 9

\* the (name, type) lists _parse_db_definition returns: Bool and Int fields
MiniSpecs ==
    UNION {{[k \in 1..n |-> [name |-> "f" \o ToString(k), ftype |-> ts[k]]] :
               ts \in [1..n -> {"Bool", "Int"}]} : n \in 0..MaxMiniFields}

\* the contents of a buffer file: any length, bytes of a pattern
Sources == {DeviceImage(p, n) : p \in DevicePatterns, n \in 0..MaxSource}

(* ------------------------ projects (inputs) ---------------------------- *)
\* longest buffer list of a saved project
MaxSaved == 5

\* the definitions the saved projects point to
ProjectTrees ==
    {[types |-> PlainTypes, data |-> Struct(<<Member("DB", Struct(ms))>>)] :
        ms \in {<<Member("a", Leaf("Bool")), Member("i", Leaf("Int"))>>,
                <<Member("w", Leaf("DWord"))>>,
                <<Member("X", Array(Numeral(1), Numeral(2), "Bool"))>>,
                <<Member("s", Leaf("Sensor"))>>,
                <<Member("u", Leaf("Foo"))>>}}

\* dbinfo.get("buffer") of a saved project: no list, or a list of bytes of
\* the length the buffer had when the project was saved
NoBuffer == [is_list |-> FALSE, bytes |-> <<>>]

SavedBuffers ==
    {NoBuffer}
    \cup {[is_list |-> TRUE, bytes |-> DeviceImage(p, n)] :
            p \in DevicePatterns, n \in 0..MaxSaved}

(* ------------------------- threads (inputs) ---------------------------- *)
\* the definitions the threads work on: two or three booleans that share a
\* word, alone or followed by an Int
ThreadDefinitions ==
    {PairsOf(2, Prefix1, "none", 0, Prefix1, <<>>), PairsOf(3, Prefix1, "Int", 0, Prefix1, <<>>)}

\* the values the threads hand to Set
ThreadValues == {PyBool(TRUE), PyBool(FALSE)}

(* ------------------------- strings (inputs) ---------------------------- *)
\* the code points of the characters of the values: NUL, A, y-diaeresis
\* (the last of Latin-1) and a character outside Latin-1
CodePoints == {0, 65, 255, 300}

\* the values handed to set_s7_string: up to one character over MaxStringLen
StringValues == UNION {[1..n -> CodePoints] : n \in 0..(MaxStringLen + 1)}

\* the max_len arguments: none, a byte, and two that do not fit one byte
MaxLens == {NoMaxLen} \cup 0..MaxStringLen \cup {256, 257}

\* the byte indexes of the string fields
StringIndexes == {0, 1}

\* the buffers: a maximum and a current length followed by device bytes,
\* and two that are too short to hold the two length bytes
StringBuffers ==
    {<<m, c>> \o DeviceImage(ptn, k) :
        m \in 0..MaxStringLen, c \in {0, 1, 200}, ptn \in DevicePatterns,
        k \in {0, MaxStringLen, MaxStringLen + 1}}
    \cup {<<>>, <<1>>}

(* -------------------------- scenes (inputs) ---------------------------- *)
\* a Belt as its settings dialog leaves it: width, motor variable, and the
\* two sensors enabled with the variables ft_in_var / ft_out_var, or disabled
BeltItem(width_ticks, motor_var, ft_in_var, ft_out_var) ==
    [width_ticks |-> width_ticks, motor_var |-> motor_var,
     ft_in_enabled |-> ft_in_var # "", ft_in_var |-> ft_in_var, ft_in_state |-> FALSE,
     ft_out_enabled |-> ft_out_var # "", ft_out_var |-> ft_out_var, ft_out_state |-> FALSE]

\* an ExitBlock with its capacity and dwell time; advance_ms is 600
ExitItem(capacity, dwell_ms) ==
    [slots |-> [i \in 1..capacity |-> NoSlot], dwell_ms |-> dwell_ms, advance_ms |-> 600,
     _adv_accum |-> 0,
     ft_in_enabled |-> FALSE, ft_in_var |-> "", ft_in_state |-> FALSE,
     ft_out_enabled |-> FALSE, ft_out_var |-> "", ft_out_state |-> FALSE]

Link(src, dst) == <<src, dst>>

\* a function given by its pairs <<key, value>>
MapOf(pairs) ==
    [k \in {pr[1] : pr \in pairs} |-> (CHOOSE pr \in pairs : pr[1] = k)[2]]

\* the scenes: a line generator -> b1 (2 cells) -> b2 (1 cell) -> exit, both
\* belts driven by one motor variable, ...
SceneLine ==
    [belts |-> MapOf({<<"b1", BeltItem(2, "M1", "I1", "O1")>>,
                      <<"b2", BeltItem(1, "M1", "", "")>>}),
     exits |-> MapOf({<<"e1", ExitItem(2, 160)>>}),
     downstream |-> <<Link("gen", "b1"), Link("b1", "b2"), Link("b2", "e1")>>]

\* ... the generator linked to an exit with one slot, ...
SceneDirect ==
    [belts |-> <<>>,
     exits |-> MapOf({<<"e1", ExitItem(1, 240)>>}),
     downstream |-> <<Link("gen", "e1")>>]

\* ... a belt of three cells that leads nowhere, ...
SceneDeadEnd ==
    [belts |-> MapOf({<<"b1", BeltItem(3, "M1", "I1", "O1")>>}),
     exits |-> <<>>,
     downstream |-> <<Link("gen", "b1")>>]

\* ... a belt of two cells in front of an exit whose one slot keeps a box
\* longer than the next box needs to arrive, ...
SceneQueue ==
    [belts |-> MapOf({<<"b1", BeltItem(2, "M1", "I1", "O1")>>}),
     exits |-> MapOf({<<"e1", ExitItem(1, 560)>>}),
     downstream |-> <<Link("gen", "b1"), Link("b1", "e1")>>]

\* ... and a generator that is not linked
SceneLoose ==
    [belts |-> MapOf({<<"b1", BeltItem(1, "", "", "")>>}),
     exits |-> <<>>,
     downstream |-> <<>>]

Scenes == {SceneLine, SceneDirect, SceneDeadEnd, SceneQueue, SceneLoose}

\* the intervals given to BoxGenerator.set_interval (at least 100 ms)
Intervals == {100}

\* the values of the speed spin box the view runs at (in tenths: 5.0)
SimSpeeds == {50}

\* the exit blocks ticked on their own: <<capacity, dwell_ms>>, sensors enabled
ExitBlocks == {<<1, 0>>, <<1, 200>>, <<2, 80>>, <<3, 200>>}

\* the dt_ms of ExitBlock.tick: int(16 * sim_speed) at the speeds 2.5 and 5.0
ExitDts == {40, 80}

\* the variables of a scene: the dialogs enter every one into VARS as False
SceneVars(scene) ==
    UNION {{scene.belts[b].motor_var, scene.belts[b].ft_in_var, scene.belts[b].ft_out_var} :
              b \in DOMAIN scene.belts} \ {""}

MotorVars == {belts[b].motor_var : b \in DOMAIN belts} \ {""}

(* ----------------------------- state machine --------------------------- *)
NoOp == [op |-> "none", name |-> "", value |-> NoneVal, err |-> "none", ret |-> NoneVal]

\* BoxGenerator.__init__: interval 1500 ms, running
NewGenerator ==
    [interval_ms |-> 1500, elapsed_ms |-> 0, blocked |-> FALSE, running |-> TRUE]

\* no conveyor view: an empty scene that is never ticked
NoView ==
    /\ boxes = <<>>
    /\ belts = <<>>
    /\ exits = <<>>
    /\ downstream = <<>>
    /\ generator = NewGenerator
    /\ generator_blocked = FALSE
    /\ sim_speed = 10
    /\ VARS = <<>>
    /\ items = 0

InitWith(defs) ==
    /\ pc = "pairs"
    /\ name_type_pairs \in defs
    /\ fields = <<>>
    /\ size = 0
    /\ mapping = <<>>
    /\ db_size = 0
    /\ buffer = <<>>
    /\ last = NoOp
    /\ nops = 0
    /\ tree = NoTree
    /\ source = <<>>
    /\ threads = NoThreads
    /\ NoView

Init == InitWith(AccDefinitions)

InitLayout == InitWith(Definitions)

\* parse_db_file: the resolved pairs go through generate_struct_format
GenerateStructFormat ==
    /\ pc = "pairs"
    /\ LET r == generate_struct_format(name_type_pairs) IN
        /\ pc' = IF r.err = "none" THEN "format" ELSE "failed"
        /\ fields' = r.fields
        /\ size' = r.size
    /\ UNCHANGED <<threads, tree, source, name_type_pairs, mapping, db_size, buffer, last, nops>>
    /\ UNCHANGED viewvars

\* S7DataBlock.from_fields: the index and a zero-filled buffer of its size
FromFields ==
    /\ pc = "format"
    /\ LET r == fields_to_mapping(fields) IN
        /\ mapping' = r.mapping
        /\ db_size' = r.size
        /\ buffer' = [i \in 1..r.size |-> 0]
    /\ pc' = "ready"
    /\ UNCHANGED <<threads, tree, source, name_type_pairs, fields, size, last, nops>>
    /\ UNCHANGED viewvars

\* db[name]
GetItem ==
    /\ pc = "ready"
    /\ \E name \in ProbeNames :
          LET r == getitem(buffer, mapping, name) IN
          last' = [op |-> "get", name |-> name, value |-> NoneVal, err |-> r.err, ret |-> r.ret]
    /\ UNCHANGED <<threads, tree, source, pc, name_type_pairs, fields, size, mapping, db_size, buffer, nops>>
    /\ UNCHANGED viewvars

\* db[name] = value
SetItem ==
    /\ pc = "ready"
    /\ nops < MaxSets
    /\ \E name \in ProbeNames, value \in Values :
          LET r == setitem(buffer, mapping, name, value) IN
          /\ buffer' = r.buffer
          /\ last' = [op |-> "set", name |-> name, value |-> value, err |-> r.err,
                      ret |-> NoneVal]
    /\ nops' = nops + 1
    /\ UNCHANGED <<threads, tree, source, pc, name_type_pairs, fields, size, mapping, db_size>>
    /\ UNCHANGED viewvars

\* S7DataBlock.pull: the buffer is replaced by db_size bytes read from the device
Pull ==
    /\ pc = "ready"
    /\ \E p \in DevicePatterns : buffer' = DeviceImage(p, db_size)
    /\ last' = [op |-> "pull", name |-> "", value |-> NoneVal, err |-> "none", ret |-> NoneVal]
    /\ UNCHANGED <<threads, tree, source, pc, name_type_pairs, fields, size, mapping, db_size, nops>>
    /\ UNCHANGED viewvars

\* a definition file has been read and parsed to its tree
InitResolve ==
    /\ pc = "text"
    /\ tree \in Trees
    /\ name_type_pairs = <<>>
    /\ fields = <<>>
    /\ size = 0
    /\ mapping = <<>>
    /\ db_size = 0
    /\ buffer = <<>>
    /\ last = NoOp
    /\ nops = 0
    /\ source = <<>>
    /\ threads = NoThreads
    /\ NoView

\* parse_db_file: resolve the tree, generate the format, drop the first level
ParseDbFile ==
    /\ pc = "text"
    /\ LET r == parse_db_file(tree) IN
        /\ pc' = IF r.err = "none" THEN "format" ELSE "failed"
        /\ name_type_pairs' = r.pairs
        /\ fields' = r.fields
        /\ size' = r.size
        /\ last' = [op |-> "parse", name |-> "", value |-> NoneVal, err |-> r.err,
                    ret |-> NoneVal]
    /\ UNCHANGED <<threads, tree, source, mapping, db_size, buffer, nops>>
    /\ UNCHANGED viewvars

NextResolve == ParseDbFile \/ FromFields

SpecResolve == InitResolve /\ [][NextResolve]_vars

\* a minimal definition has been read and parsed to its (name, type) list
InitMini ==
    /\ pc = "minitext"
    /\ name_type_pairs \in MiniSpecs
    /\ fields = <<>>
    /\ size = 0
    /\ mapping = <<>>
    /\ db_size = 0
    /\ buffer = <<>>
    /\ last = NoOp
    /\ nops = 0
    /\ tree = NoTree
    /\ source = <<>>
    /\ threads = NoThreads
    /\ NoView

\* datablock.S7DataBlock.from_definition_file: place the fields, zero buffer
FromDefinitionFile ==
    /\ pc = "minitext"
    /\ LET r == _place_fields(name_type_pairs) IN
        /\ fields' = r.fields
        /\ size' = r.size
        /\ mapping' = FieldDict(r.fields)
        /\ buffer' = [i \in 1..r.size |-> 0]
    /\ pc' = "mini"
    /\ last' = [op |-> "new", name |-> "", value |-> NoneVal, err |-> "none", ret |-> NoneVal]
    /\ UNCHANGED <<threads, tree, source, name_type_pairs, db_size, nops>>
    /\ UNCHANGED viewvars

\* datablock.S7DataBlock.from_definition_and_buffer_file: the block of
\* from_definition_file with the bytes of the buffer file fitted into it
FromDefinitionAndBufferFile ==
    /\ pc = "minitext"
    /\ \E data \in Sources :
          LET r == _place_fields(name_type_pairs) IN
          /\ fields' = r.fields
          /\ size' = r.size
          /\ mapping' = FieldDict(r.fields)
          /\ buffer' = FitBuffer([i \in 1..r.size |-> 0], data)
          /\ source' = data
    /\ pc' = "mini"
    /\ last' = [op |-> "load", name |-> "", value |-> NoneVal, err |-> "none", ret |-> NoneVal]
    /\ UNCHANGED <<threads, tree, name_type_pairs, db_size, nops>>
    /\ UNCHANGED viewvars

NextMini == FromDefinitionFile \/ FromDefinitionAndBufferFile

SpecMini == InitMini /\ [][NextMini]_vars

\* a project file has been read; its "db" entry names a definition file
InitProject ==
    /\ pc = "project"
    /\ tree \in ProjectTrees
    /\ name_type_pairs = <<>>
    /\ fields = <<>>
    /\ size = 0
    /\ mapping = <<>>
    /\ db_size = 0
    /\ buffer = <<>>
    /\ last = NoOp
    /\ nops = 0
    /\ source = <<>>
    /\ threads = NoThreads
    /\ NoView

\* ProjectManager.load_project, "Restore DB if present": the block is built
\* by from_definition_file(path, db_number, nesting_depth_to_skip=1) and, if
\* the saved buffer is a list, db_block.buffer = bytearray(buf); an error of
\* the load is swallowed and leaves no block
LoadProject ==
    /\ pc = "project"
    /\ \E buf \in SavedBuffers :
          LET r == parse_db_file(tree)
              m == fields_to_mapping(r.fields)
          IN IF r.err # "none"
             THEN /\ pc' = "failed"
                  /\ UNCHANGED <<name_type_pairs, fields, size, mapping, db_size, buffer,
                                 source>>
             ELSE /\ pc' = "ready"
                  /\ name_type_pairs' = r.pairs
                  /\ fields' = r.fields
                  /\ size' = r.size
                  /\ mapping' = m.mapping
                  /\ db_size' = m.size
                  /\ buffer' = IF buf.is_list THEN buf.bytes ELSE [i \in 1..m.size |-> 0]
                  /\ source' = buf.bytes
    /\ last' = [op |-> "restore", name |-> "", value |-> NoneVal, err |-> "none",
                ret |-> NoneVal]
    /\ UNCHANGED <<threads, tree, nops>>
    /\ UNCHANGED viewvars

NextProject == LoadProject \/ GetItem \/ SetItem \/ Pull

SpecProject == InitProject /\ [][NextProject]_vars

InitThreads == InitWith(ThreadDefinitions)

\* a thread enters db[name] = value: the lookup, and for a boolean the read
\* of its word and the change of the bit in the local current_value
SetRead(t) ==
    /\ pc = "ready"
    /\ threads[t].pc = "idle"
    /\ \E name \in DOMAIN mapping, value \in ThreadValues :
          LET info == mapping[name]
              u == struct_unpack_le_H(Slice(buffer, info.address, info.address + 2))
              th == [pc |-> "pack", name |-> name, value |-> value,
                     current_value |-> IF IsBitAddress(info)
                                       THEN WithBit(u.n, info.bit, Truthy(value)) ELSE 0,
                     packed |-> <<>>, stale |-> FALSE,
                     alone |-> \A o \in Threads \ {t} : ~InCall(threads[o])]
          IN threads' = [Disturb(threads, t) EXCEPT ![t] = th]
    /\ UNCHANGED <<pc, name_type_pairs, fields, size, mapping, db_size, buffer, last, nops,
                   tree, source>>
    /\ UNCHANGED viewvars

\* the right-hand side struct.pack(...) is evaluated and self.buffer loaded
SetLoad(t) ==
    /\ threads[t].pc = "pack"
    /\ LET info == mapping[threads[t].name]
           p == IF IsBitAddress(info) THEN struct_pack_le_H(threads[t].current_value)
                ELSE struct_pack_be(info.format, threads[t].value)
       IN threads' = [Disturb(threads, t) EXCEPT ![t].pc = "store", ![t].packed = p.bytes,
                                                ![t].stale = FALSE]
    /\ UNCHANGED <<pc, name_type_pairs, fields, size, mapping, db_size, buffer, last, nops,
                   tree, source>>
    /\ UNCHANGED viewvars

\* the slice assignment into the bytearray the thread has loaded
SetStore(t) ==
    /\ threads[t].pc = "store"
    /\ LET info == mapping[threads[t].name] IN
          buffer' = IF threads[t].stale THEN buffer
                    ELSE SliceAssign(buffer, info.address,
                                     info.address + calcsize(info.format), threads[t].packed)
    /\ threads' = [Disturb(threads, t) EXCEPT ![t].pc = "done"]
    /\ last' = [op |-> "set", name |-> threads[t].name, value |-> threads[t].value,
                err |-> "none", ret |-> NoneVal]
    /\ UNCHANGED <<pc, name_type_pairs, fields, size, mapping, db_size, nops, tree, source>>
    /\ UNCHANGED viewvars

\* PLCConnection._poll (and S7DataBlock.pull): self.buffer is rebound to the
\* bytes read from the device
Poll ==
    /\ pc = "ready"
    /\ nops < MaxPolls
    /\ \E p \in DevicePatterns : buffer' = DeviceImage(p, db_size)
    /\ threads' = Rebind(Disturb(threads, 0))
    /\ nops' = nops + 1
    /\ last' = [op |-> "pull", name |-> "", value |-> NoneVal, err |-> "none", ret |-> NoneVal]
    /\ UNCHANGED <<pc, name_type_pairs, fields, size, mapping, db_size, tree, source>>
    /\ UNCHANGED viewvars

NextThreads ==
    \/ GenerateStructFormat
    \/ FromFields
    \/ \E t \in Threads : SetRead(t) \/ SetLoad(t) \/ SetStore(t)
    \/ Poll

SpecThreads == InitThreads /\ [][NextThreads]_vars

\* a buffer that holds string fields
InitString ==
    /\ pc = "string"
    /\ buffer \in StringBuffers
    /\ name_type_pairs = <<>>
    /\ fields = <<>>
    /\ size = 0
    /\ mapping = <<>>
    /\ db_size = 0
    /\ last = NoOp
    /\ nops = 0
    /\ tree = NoTree
    /\ source = <<>>
    /\ threads = NoThreads
    /\ NoView

\* set_s7_string(buf, byte_index, value, max_len), once on a buffer; last
\* keeps the call, the buffer before it (in ret) and the error
SetS7String ==
    /\ pc = "string"
    /\ \E byte_index \in StringIndexes, value \in StringValues, max_len \in MaxLens :
          LET r == set_s7_string(buffer, byte_index, value, max_len) IN
          /\ buffer' = r.buffer
          /\ last' = [op |-> "set_s7_string", name |-> byte_index, value |-> value,
                      max_len |-> max_len, err |-> r.err, ret |-> buffer]
    /\ pc' = "stored"
    /\ UNCHANGED <<name_type_pairs, fields, size, mapping, db_size, nops, tree, source,
                   threads>>
    /\ UNCHANGED viewvars

\* get_s7_string(buf, byte_index)
GetS7String ==
    /\ pc \in {"string", "stored"}
    /\ \E byte_index \in StringIndexes :
          LET r == get_s7_string(buffer, byte_index) IN
          last' = [op |-> "get_s7_string", name |-> byte_index, value |-> <<>>,
                   max_len |-> NoMaxLen, err |-> r.err, ret |-> r.ret]
    /\ UNCHANGED <<pc, name_type_pairs, fields, size, mapping, db_size, buffer, nops, tree,
                   source, threads>>
    /\ UNCHANGED viewvars

NextString == SetS7String \/ GetS7String

SpecString == InitString /\ [][NextString]_vars

\* a scene has been built or loaded; no box is on the line
InitView ==
    /\ pc = "view"
    /\ \E scene \in Scenes :
          /\ belts = scene.belts
          /\ exits = scene.exits
          /\ downstream = scene.downstream
          /\ VARS = [n \in SceneVars(scene) |-> FALSE]
    /\ \E ms \in Intervals : generator = [NewGenerator EXCEPT !.interval_ms = ms]
    /\ generator_blocked = FALSE
    /\ sim_speed \in SimSpeeds
    /\ boxes = <<>>
    /\ items = 0
    /\ name_type_pairs = <<>>
    /\ fields = <<>>
    /\ size = 0
    /\ mapping = <<>>
    /\ db_size = 0
    /\ buffer = <<>>
    /\ last = NoOp
    /\ nops = 0
    /\ tree = NoTree
    /\ source = <<>>
    /\ threads = NoThreads

\* the state View.tick starts from
ViewState ==
    [boxes |-> boxes, belts |-> belts, exits |-> exits, generator |-> generator,
     generator_blocked |-> generator_blocked, VARS |-> VARS, items |-> items,
     spawned |-> 0, handed |-> <<>>]

\* View.tick (the timer of the view); last keeps what the tick did, and
\* whether the generator was blocked when the tick began
Tick ==
    /\ pc = "view"
    /\ LET v == ViewTick(ViewState, downstream, sim_speed) IN
          /\ v.items <= MaxBoxes
          /\ boxes' = v.boxes
          /\ belts' = v.belts
          /\ exits' = v.exits
          /\ generator' = v.generator
          /\ generator_blocked' = v.generator_blocked
          /\ VARS' = v.VARS
          /\ items' = v.items
          /\ last' = [op |-> "tick", spawned |-> v.spawned, handed |-> v.handed,
                       waited |-> generator_blocked]
    /\ UNCHANGED <<downstream, sim_speed>>
    /\ UNCHANGED dbvars

\* MainWindow._poll_snap7: a motor variable takes the value read from the PLC
PollSnap7 ==
    /\ pc = "view"
    /\ \E name \in MotorVars, val \in BOOLEAN : VARS' = DictPut(VARS, name, val)
    /\ last' = [op |-> "poll", spawned |-> 0, handed |-> <<>>, waited |-> FALSE]
    /\ UNCHANGED <<boxes, belts, exits, downstream, generator, generator_blocked, sim_speed,
                   items>>
    /\ UNCHANGED dbvars

\* MainWindow.gen_start: BoxGenerator.start
GenStart ==
    /\ pc = "view"
    /\ generator' = [generator EXCEPT !.running = TRUE]
    /\ last' = [op |-> "gen_start", spawned |-> 0, handed |-> <<>>, waited |-> FALSE]
    /\ UNCHANGED <<boxes, belts, exits, downstream, generator_blocked, sim_speed, VARS, items>>
    /\ UNCHANGED dbvars

\* MainWindow.gen_stop: BoxGenerator.stop
GenStop ==
    /\ pc = "view"
    /\ generator' = [generator EXCEPT !.running = FALSE]
    /\ last' = [op |-> "gen_stop", spawned |-> 0, handed |-> <<>>, waited |-> FALSE]
    /\ UNCHANGED <<boxes, belts, exits, downstream, generator_blocked, sim_speed, VARS, items>>
    /\ UNCHANGED dbvars

NextView == Tick \/ PollSnap7 \/ GenStart \/ GenStop

SpecView == InitView /\ [][NextView]_vars

\* an exit block on its own, empty, its sensors enabled and bound
InitExit ==
    /\ pc = "exit"
    /\ \E eb \in ExitBlocks :
          exits = [e \in {"e1"} |->
                      [ExitItem(eb[1], eb[2]) EXCEPT !.ft_in_enabled = TRUE, !.ft_in_var = "XI",
                                                     !.ft_out_enabled = TRUE, !.ft_out_var = "XO"]]
    /\ VARS = [n \in {"XI", "XO"} |-> FALSE]
    /\ items = 0
    /\ last = [op |-> "none", item |-> 0, ret |-> FALSE, dt_ms |-> 0]
    /\ boxes = <<>>
    /\ belts = <<>>
    /\ downstream = <<>>
    /\ generator = NewGenerator
    /\ generator_blocked = FALSE
    /\ sim_speed = 10
    /\ name_type_pairs = <<>>
    /\ fields = <<>>
    /\ size = 0
    /\ mapping = <<>>
    /\ db_size = 0
    /\ buffer = <<>>
    /\ nops = 0
    /\ tree = NoTree
    /\ source = <<>>
    /\ threads = NoThreads

\* ExitBlock.add_box(box_item) with a new box item; it returns False, and
\* changes nothing, when no slot is free
ExitAddBox ==
    /\ pc = "exit"
    /\ items < MaxExitBoxes
    /\ LET r == add_box(exits["e1"], items + 1, VARS) IN
          /\ exits' = [exits EXCEPT !["e1"] = r.exit]
          /\ VARS' = r.VARS
          /\ last' = [op |-> "add_box", item |-> items + 1, ret |-> can_accept(exits["e1"]),
                      dt_ms |-> 0]
    /\ items' = items + 1
    /\ UNCHANGED <<boxes, belts, downstream, generator, generator_blocked, sim_speed>>
    /\ UNCHANGED dbvars

\* ExitBlock.tick(dt_ms)
ExitTickStep ==
    /\ pc = "exit"
    /\ \E dt_ms \in ExitDts :
          LET r == ExitTick(exits["e1"], dt_ms, VARS) IN
             /\ exits' = [exits EXCEPT !["e1"] = r.exit]
             /\ VARS' = r.VARS
             /\ last' = [op |-> "tick", item |-> 0, ret |-> FALSE, dt_ms |-> dt_ms]
    /\ UNCHANGED <<boxes, belts, downstream, generator, generator_blocked, sim_speed, items>>
    /\ UNCHANGED dbvars

NextExit == ExitAddBox \/ ExitTickStep

\* the timer of the view calls ExitBlock.tick again and again (View.tick
\* lines 763-766)
SpecExit == InitExit /\ [][NextExit]_vars /\ WF_vars(ExitTickStep)

NextLayout == GenerateStructFormat \/ FromFields

Next == GenerateStructFormat \/ FromFields \/ GetItem \/ SetItem \/ Pull

Spec == Init /\ [][Next]_vars

SpecLayout == InitLayout /\ [][NextLayout]_vars

(* ------------------------ vocabulary of the claims --------------------- *)
Range(f) == {f[x] : x \in DOMAIN f}

\* the flattened name of the k-th declared field
NameAt(k) == _join_name_parts(name_type_pairs[k].name, ".")

IsBoolAt(k) == name_type_pairs[k].type = "Bool"

\* the physical fields that are boolean groups
Groups == {g \in 1..Len(fields) : fields[g].is_list}

\* the declared fields k1, k2 are booleans of one group
SameGroup(k1, k2) ==
    \E g \in Groups : {NameAt(k1), NameAt(k2)} \subseteq Range(fields[g].name_or_names)

\* width in bytes of a physical field: 2 for a group, else its type's width
WidthOf(field) ==
    IF field.is_list THEN 2
    ELSE CASE field.type \in {"Byte", "Char"} -> 1
           [] field.type \in {"Int", "Word", "S5Time", "Date"} -> 2
           [] field.type \in {"DInt", "DWord", "Time", "Time_of_Day", "UDInt", "Real"} -> 4
           [] field.type = "DReal" -> 8

RECURSIVE OffsetOf(_)
\* byte offset of the g-th physical field: the widths before it
OffsetOf(g) == IF g = 1 THEN 0 ELSE OffsetOf(g - 1) + WidthOf(fields[g - 1])

Generated == pc \in {"format", "ready"}

(* -------------------------------- C1 ----------------------------------- *)
\* the definition is STRUCT a:Bool; b:Bool; c:Bool; d:Int; END_STRUCT
C1_IsAbcD ==
    /\ Len(name_type_pairs) = 4
    /\ \A k \in 1..3 : IsBoolAt(k) /\ PrefixOf(name_type_pairs[k].name) = Prefix1
    /\ name_type_pairs[4].type = "Int"

\* C1: for a struct declaring a:Bool, b:Bool, c:Bool, d:Int in that order the
\* layout has total size 4 bytes, a/b/c are bits 0/1/2 of the 16-bit word at
\* byte offset 0 and d is a 2-byte Int16 scalar at byte offset 2.
C1_StructLayout ==
    (pc = "ready" /\ C1_IsAbcD) =>
        /\ size = 4 /\ db_size = 4 /\ Len(buffer) = 4
        /\ DOMAIN mapping = {NameAt(k) : k \in 1..4}
        /\ \A k \in 1..3 :
              mapping[NameAt(k)] =
                  [is_tuple |-> TRUE, address |-> 0, bit |-> k - 1, format |-> "H"]
        /\ mapping[NameAt(4)] =
              [is_tuple |-> FALSE, address |-> 2, bit |-> -1, format |-> "h"]

C1_Witness == pc = "ready" /\ C1_IsAbcD /\ Cardinality(DOMAIN mapping) = 4

(* -------------------------------- C2 ----------------------------------- *)
\* the definition is 17 consecutive booleans under one prefix
C2_Is17Bools ==
    /\ Len(name_type_pairs) = 17
    /\ \A k \in 1..17 :
          IsBoolAt(k) /\ PrefixOf(name_type_pairs[k].name) = PrefixOf(name_type_pairs[1].name)

\* C2: 17 consecutive booleans with one prefix are split into two BoolGroups
\* holding the first 16 names and the 17th name; in general a pending group
\* is flushed as soon as it holds 16 names, so no group holds more than 16.
C2_SplitAt16 ==
    Generated =>
        /\ \A g \in Groups : Len(fields[g].name_or_names) <= 16
        /\ C2_Is17Bools =>
              /\ Len(fields) = 2
              /\ fields[1].name_or_names = [k \in 1..16 |-> NameAt(k)]
              /\ fields[2].name_or_names = <<NameAt(17)>>

(* -------------------------------- C3 ----------------------------------- *)
\* C3: two booleans share a BoolGroup only if every field declared from the
\* first to the second is a boolean with the same path prefix; a non-boolean
\* field or a change of prefix between them puts them in different groups.
C3_GroupOnlyConsecutiveSamePrefix ==
    Generated =>
        \A k1 \in 1..Len(name_type_pairs), k2 \in 1..Len(name_type_pairs) :
            (k1 < k2 /\ IsBoolAt(k1) /\ IsBoolAt(k2) /\ SameGroup(k1, k2)) =>
                \A k \in k1..k2 :
                    /\ IsBoolAt(k)
                    /\ PrefixOf(name_type_pairs[k].name) = PrefixOf(name_type_pairs[k1].name)

\* a scalar between two booleans of one prefix, and a change of prefix between
\* two adjacent booleans, each separating groups of fewer than 16 names
C3_Witness ==
    /\ Generated
    /\ Len(fields) = 4 /\ Len(name_type_pairs) = 5
    /\ fields[1].is_list /\ Len(fields[1].name_or_names) = 2
    /\ ~fields[2].is_list
    /\ fields[3].is_list /\ Len(fields[3].name_or_names) = 1
    /\ fields[4].is_list /\ Len(fields[4].name_or_names) = 1
    /\ PrefixOf(name_type_pairs[4].name) # PrefixOf(name_type_pairs[5].name)
    /\ ~SameGroup(2, 4) /\ ~SameGroup(4, 5)

(* -------------------------------- C4 ----------------------------------- *)
\* C4: every boolean is addressed as (byte offset of its group, its 0-based
\* position in the group's name list), that position lies in 0..15, and no
\* two booleans of one group have the same bit position.
C4_BitAddresses ==
    pc = "ready" =>
        \A g \in Groups :
            LET names == fields[g].name_or_names IN
            /\ \A k \in 1..Len(names) :
                  /\ mapping[names[k]] =
                        [is_tuple |-> TRUE, address |-> OffsetOf(g), bit |-> k - 1,
                         format |-> "H"]
                  /\ mapping[names[k]].bit \in 0..15
            /\ \A k1 \in 1..Len(names), k2 \in 1..Len(names) :
                  k1 # k2 => mapping[names[k1]].bit # mapping[names[k2]].bit

(* ------------------- vocabulary of the accessor claims ----------------- *)
\* the step is a Set call (only SetItem counts in nops); last' describes it
SetStep == nops' = nops + 1

KnownName(name) == name \in DOMAIN mapping

IsBoolName(name) == KnownName(name) /\ mapping[name].is_tuple

AllZero(buf) == \A idx \in 1..Len(buf) : buf[idx] = 0

(* -------------------------------- C5 ----------------------------------- *)
\* the byte b with its bit j inverted
C5_Flipped(b, j) == IF (b \div (2 ^ j)) % 2 = 1 THEN b - 2 ^ j ELSE b + 2 ^ j

\* C5: a Set on a boolean field b changes at most b's own bit of the buffer:
\* the length and every other bit stay, and every other field (the booleans
\* of b's word, the other booleans, every scalar) reads the same afterwards.
C5_BitIndependence ==
    [][(SetStep /\ IsBoolName(last'.name)) =>
         LET info == mapping[last'.name] IN
         /\ Len(buffer') = Len(buffer)
         /\ \A idx \in 1..Len(buffer) :
               IF info.bit <= 15 /\ idx - 1 = info.address + (info.bit \div 8)
               THEN buffer'[idx] \in {buffer[idx], C5_Flipped(buffer[idx], info.bit % 8)}
               ELSE buffer'[idx] = buffer[idx]
         /\ \A n \in DOMAIN mapping \ {last'.name} :
               getitem(buffer', mapping, n) = getitem(buffer, mapping, n)]_vars

\* a boolean in the high byte of a word was cleared while another boolean of
\* the same word reads true and the Int before the word is not zero
C5_Witness ==
    /\ pc = "ready" /\ last.op = "set" /\ last.err = "none"
    /\ IsBoolName(last.name)
    /\ mapping[last.name].bit \in 8..15
    /\ last.value = PyBool(FALSE)
    /\ \E n \in DOMAIN mapping \ {last.name} :
          /\ mapping[n].is_tuple /\ mapping[n].address = mapping[last.name].address
          /\ getitem(buffer, mapping, n).ret = PyBool(TRUE)
    /\ \E n \in DOMAIN mapping :
          /\ mapping[n].format = "h"
          /\ getitem(buffer, mapping, n).ret # PyInt(0, 0)

(* -------------------------------- C6 ----------------------------------- *)
\* v is a value of the type of the field addressed by info
C6_Representable(v, info) ==
    IF info.is_tuple THEN v.kind = "bool"
    ELSE IF info.format = "c" THEN v.kind = "bytes" /\ v.hi = 1
    ELSE v.kind = "int" /\ InRange(info.format, v)

\* C6: for every field f (every boolean of every group included) and every
\* value v of its type, Set(f, v) followed by Get(f) returns v.
C6_RoundTrip ==
    [][(/\ last.op = "set" /\ last'.op = "get" /\ last'.name = last.name
        /\ KnownName(last.name)
        /\ C6_Representable(last.value, mapping[last.name]))
       => (last.err = "none" /\ last'.err = "none" /\ PyEq(last'.ret, last.value))]_vars

(* -------------------------------- C7 ----------------------------------- *)
\* C7: setting the boolean at position k < 8 of a group at byte offset o to
\* true on an all-zero buffer leaves buffer[o] = 2^k and every other byte 0.
C7_SingleBitByte ==
    [][(/\ SetStep /\ IsBoolName(last'.name)
        /\ mapping[last'.name].bit < 8
        /\ last'.value = PyBool(TRUE)
        /\ AllZero(buffer))
       => /\ Len(buffer') = Len(buffer)
          /\ \A idx \in 1..Len(buffer') :
                buffer'[idx] = IF idx - 1 = mapping[last'.name].address
                               THEN 2 ^ mapping[last'.name].bit ELSE 0]_vars

\* the second boolean of a group at an offset above 0 was set to true and
\* the buffer holds 2 in that byte and 0 elsewhere
C7_Witness ==
    /\ pc = "ready" /\ last.op = "set" /\ last.err = "none"
    /\ last.value = PyBool(TRUE)
    /\ IsBoolName(last.name)
    /\ mapping[last.name].bit = 1 /\ mapping[last.name].address > 0
    /\ buffer = [idx \in 1..db_size |->
                    IF idx - 1 = mapping[last.name].address THEN 2 ELSE 0]

(* -------------------------------- C8 ----------------------------------- *)
\* C8: Get or Set with a name that is not in the address index fails with a
\* KeyError and leaves the buffer unchanged.
C8_UnknownField ==
    [][(pc = "ready" /\ last'.op \in {"get", "set"} /\ ~KnownName(last'.name))
       => (last'.err = "KeyError" /\ buffer' = buffer)]_vars

\* a Set with an unknown name failed on a buffer that holds device data
C8_Witness ==
    /\ pc = "ready" /\ last.op = "set" /\ ~KnownName(last.name)
    /\ last.err = "KeyError"
    /\ db_size > 0 /\ ~AllZero(buffer)

(* -------------------------------- C9 ----------------------------------- *)
\* C9: a Set that ends in an error (unknown name, value out of range, value
\* of the wrong kind, bit position outside the word) leaves the buffer's
\* contents and length as they were.
C9_FailedSetNoWrite ==
    [][(SetStep /\ last'.err # "none") => buffer' = buffer]_vars

\* an integer out of the range of a 4-byte scalar was refused on a buffer
\* that holds device data
C9_Witness ==
    /\ pc = "ready" /\ last.op = "set" /\ last.err = "struct.error"
    /\ KnownName(last.name) /\ mapping[last.name].format \in {"i", "I"}
    /\ ~mapping[last.name].is_tuple
    /\ last.value.kind = "int"
    /\ ~AllZero(buffer)

(* -------------------------------- C10 ---------------------------------- *)
\* C10 as claimed: Set on a boolean field with a value that is not a boolean
\* fails instead of writing the bit.
C10_NonBoolRejected ==
    (last.op = "set" /\ IsBoolName(last.name) /\ last.value.kind # "bool")
        => last.err # "none"

\* the truth value Python gives a non-boolean value of Values
C10_IsTrue(v) ==
    \/ v.kind = "int" /\ ~(v.hi = 0 /\ v.lo = 0)
    \/ v.kind = "str" /\ v.s # ""
    \/ v.kind = "bytes" /\ v.hi > 0

\* C10 as amended: Set on a boolean field with a non-boolean value makes no
\* type check; it writes the value's truth value (truthy sets the bit, falsy
\* clears it); only at a bit position above 15 a truthy value fails with a
\* range error and a falsy one leaves the buffer unchanged.
C10_TruthValueWritten ==
    [][(SetStep /\ IsBoolName(last'.name) /\ last'.value.kind # "bool") =>
         LET info == mapping[last'.name] IN
         IF info.bit <= 15
         THEN /\ last'.err = "none"
              /\ (BitOf(buffer'[info.address + (info.bit \div 8) + 1], info.bit % 8) = 1)
                    <=> C10_IsTrue(last'.value)
         ELSE /\ buffer' = buffer
              /\ (last'.err = "struct.error") <=> C10_IsTrue(last'.value)
              /\ last'.err \in {"none", "struct.error"}]_vars

\* the integer 258 was written to a boolean of an all-zero buffer and set it
C10_Witness ==
    /\ pc = "ready" /\ last.op = "set" /\ last.err = "none"
    /\ IsBoolName(last.name)
    /\ last.value = PyInt(0, 258)
    /\ getitem(buffer, mapping, last.name).ret = PyBool(TRUE)
    /\ \A idx \in 1..Len(buffer) :
          buffer[idx] = IF idx - 1 = mapping[last.name].address
                        THEN 2 ^ mapping[last.name].bit ELSE 0

(* -------------------------------- C11 ---------------------------------- *)
\* the field addressed by info is an unsigned integer scalar
C11_Unsigned(info) == ~info.is_tuple /\ info.format \in {"B", "H", "I"}

\* the integer v lies in 0 .. 2^(8*width) - 1 of the unsigned format
C11_Fits(v, format_char) ==
    /\ v.hi >= 0
    /\ format_char = "B" => (v.hi = 0 /\ v.lo < 256)
    /\ format_char = "H" => v.hi = 0
    /\ format_char = "I" => v.hi < 65536

\* the big-endian bytes of v modulo 2^(8*width)
C11_Wrapped(v, width) ==
    SubSeq(<<(v.hi % 65536) \div 256, v.hi % 256, v.lo \div 256, v.lo % 256>>,
           5 - width, 4)

DBMembers == tree.data.members[1].node.members

\* the definition has been loaded without an error
Loaded == pc \in {"format", "ready"}

RECURSIVE LayoutNames(_, _)
\* the names of a layout in the order of its fields, a group name by name
LayoutNames(fs, g) ==
    IF g > Len(fs) THEN <<>> ELSE fs[g].name_or_names \o LayoutNames(fs, g + 1)

(* -------------------------------- C12 ---------------------------------- *)
\* C12: building the address index from a layout in which the same field
\* name occurs more than once (in one BoolGroup, in two groups, or as a scalar
\* and a boolean) fails at construction time; it never silently produces an
\* index in which one occurrence overwrites another.
C12_DuplicateRejected ==
    pc = "ready" =>
        LET names == LayoutNames(fields, 1) IN
        /\ \A j, k \in 1..Len(names) : j # k => names[j] # names[k]
        /\ Cardinality(DOMAIN mapping) = Len(names)

(* -------------------------------- C13 ---------------------------------- *)
\* the sub-fields of the date-time composite, in order
C13_DTLFields ==
    <<[name |-> "YEAR", type |-> "Word"], [name |-> "MONTH", type |-> "Byte"],
      [name |-> "DAY", type |-> "Byte"], [name |-> "WEEKDAY", type |-> "Byte"],
      [name |-> "HOUR", type |-> "Byte"], [name |-> "MINUTE", type |-> "Byte"],
      [name |-> "SECOND", type |-> "Byte"], [name |-> "NANOSECOND", type |-> "DWord"]>>

\* C13: a field whose type is the literal DTL is expanded by the type resolver
\* into exactly eight sub-fields under the field's path, in the order
\* YEAR:Word, MONTH:Byte, DAY:Byte, WEEKDAY:Byte, HOUR:Byte, MINUTE:Byte,
\* SECOND:Byte, NANOSECOND:DWord, occupying 12 bytes of the layout in total.
C13_DTLExpanded ==
    \A m \in 1..Len(DBMembers) :
        (pc # "text" /\ DBMembers[m].node = Leaf("DTL")
         /\ \A o \in 1..Len(DBMembers) : o # m => DBMembers[o].node.type \in {"Bool", "Int"})
        => /\ Loaded
           /\ \E k \in 1..Len(name_type_pairs) :
                 /\ k + 7 <= Len(name_type_pairs)
                 /\ \A j \in 1..8 :
                       name_type_pairs[k + j - 1] =
                          [name |-> <<Seg("DB"), Seg(DBMembers[m].name),
                                      Seg(C13_DTLFields[j].name)>>,
                           type |-> C13_DTLFields[j].type]
           /\ ~\E k \in 1..Len(name_type_pairs) : name_type_pairs[k].type = "DTL"
           /\ Len(DBMembers) = 1 => size = 12

(* -------------------------------- C14 ---------------------------------- *)
\* the text is a one-digit numeric literal
C14_IsNumeral(text) == \E i \in 0..9 : text = <<ToString(i)>>

C14_ValueOf(text) == CHOOSE i \in 0..9 : text = <<ToString(i)>>

\* d is Array[l..u] of a declared struct type whose fields are primitives
C14_IsStructArray(d) ==
    /\ d.kind = "array"
    /\ C14_IsNumeral(d.lower) /\ C14_IsNumeral(d.upper)
    /\ C14_ValueOf(d.lower) <= C14_ValueOf(d.upper)
    /\ d.type \in DOMAIN tree.types
    /\ LET fs == tree.types[d.type].members IN
       \A j \in 1..Len(fs) :
           fs[j].node.kind = "str" /\ fs[j].node.type \in {"Bool", "Int"}

\* the (u-l+1)*n leaves X[i].fj: i ascending, within i the declaration order
C14_Expected(x, d) ==
    LET l == C14_ValueOf(d.lower)
        u == C14_ValueOf(d.upper)
        fs == tree.types[d.type].members
        n == Len(fs)
    IN [q \in 1..((u - l + 1) * n) |->
           [name |-> x \o "[" \o ToString(l + ((q - 1) \div n)) \o "]."
                       \o fs[((q - 1) % n) + 1].name,
            type |-> fs[((q - 1) % n) + 1].node.type]]

\* C14: an array field X declared Array[l..u] of a struct type with fields
\* f1..fn expands into (u-l+1)*n leaf fields named X[i].fj, ordered by index i
\* ascending from l to u and within one index by the struct's declaration
\* order; the index is fused to the preceding segment with no delimiter
\* before '[', and each such name is a key of the accessor.
C14_ArrayExpansion ==
    \A m \in 1..Len(DBMembers) :
        (Loaded /\ C14_IsStructArray(DBMembers[m].node)) =>
            LET x == DBMembers[m].name
                expected == C14_Expected(x, DBMembers[m].node)
                under == SelectSeq(name_type_pairs, LAMBDA p : p.name[2] = Seg(x))
            IN /\ Len(under) = Len(expected)
               /\ \A q \in 1..Len(expected) :
                     /\ _join_name_parts(under[q].name, ".") = "DB." \o expected[q].name
                     /\ under[q].type = expected[q].type
                     /\ pc = "ready" => expected[q].name \in DOMAIN mapping

\* Array[1..3] of "Sensor" with Sensor = {A:Bool, B:Int} has been loaded after
\* a boolean: six leaves, Sensor[2].A is bit 0 of the word at byte 6
C14_Witness ==
    /\ pc = "ready"
    /\ Len(DBMembers) = 2
    /\ DBMembers[1].node = Leaf("Bool")
    /\ DBMembers[2] = Member("Sensor", Array(<<"1">>, <<"3">>, "Sensor"))
    /\ Len(name_type_pairs) = 7
    /\ {"Sensor[1].A", "Sensor[1].B", "Sensor[2].A", "Sensor[2].B", "Sensor[3].A",
        "Sensor[3].B"} \subseteq DOMAIN mapping
    /\ mapping["Sensor[2].A"] = BitAddress(6, 0)
    /\ mapping["Sensor[3].B"] = ByteAddress(12, "h")

(* -------------------------------- C15 ---------------------------------- *)
\* the node a type name stands for: its TYPE body, or the name as a leaf
C15_TypeNode(type) == IF type \in DOMAIN tree.types THEN tree.types[type] ELSE Leaf(type)

\* the index i of the path segment "[i]"
C15_IndexOf(seg) == CHOOSE i \in 0..99 : seg.s = "[" \o ToString(i) \o "]"

\* the position of the member called name among the members
C15_PositionOf(members, name) == CHOOSE j \in 1..Len(members) : members[j].name = name

RECURSIVE C15_Before(_, _, _, _)
\* in the declaration read depth-first below node, the leaf with path p comes
\* before the leaf with path q (both paths are followed from segment k on)
C15_Before(node, p, q, k) ==
    IF k > Len(p) \/ k > Len(q) THEN FALSE
    ELSE CASE node.kind = "str" ->
                node.type \in DOMAIN tree.types
                /\ C15_Before(tree.types[node.type], p, q, k)
           [] node.kind = "array" ->
                IF p[k] = q[k] THEN C15_Before(C15_TypeNode(node.type), p, q, k + 1)
                ELSE C15_IndexOf(p[k]) < C15_IndexOf(q[k])
           [] node.kind = "dict" ->
                IF p[k] = q[k]
                THEN C15_Before(node.members[C15_PositionOf(node.members, p[k].s)].node,
                                p, q, k + 1)
                ELSE C15_PositionOf(node.members, p[k].s)
                        < C15_PositionOf(node.members, q[k].s)

RECURSIVE C15_LeafCount(_)
\* the number of leaves the declaration below node has
C15_LeafCount(node) ==
    CASE node.kind = "str" ->
            IF node.type \in DOMAIN tree.types
            THEN C15_LeafCount(tree.types[node.type]) ELSE 1
      [] node.kind = "array" ->
            LET n == ArrayBound(node.upper) - ArrayBound(node.lower) + 1 IN
            IF n <= 0 THEN 0 ELSE n * C15_LeafCount(C15_TypeNode(node.type))
      [] node.kind = "dict" ->
            LET RECURSIVE Sum(_)
                Sum(j) == IF j > Len(node.members) THEN 0
                          ELSE C15_LeafCount(node.members[j].node) + Sum(j + 1)
            IN Sum(1)

\* every array of the data block has numeric literals as its bounds
C15_NumericBounds ==
    \A m \in 1..Len(DBMembers) :
        DBMembers[m].node.kind = "array" =>
            /\ \A k \in 1..Len(DBMembers[m].node.lower) : IsDigit(DBMembers[m].node.lower[k])
            /\ \A k \in 1..Len(DBMembers[m].node.upper) : IsDigit(DBMembers[m].node.upper[k])

RECURSIVE C15_Placement(_)
\* the addresses the layout gives its names, field by field from field g on:
\* (offset of the group, position in it) for a boolean, (offset, -1) else
C15_Placement(g) ==
    IF g > Len(fields) THEN <<>>
    ELSE [j \in 1..Len(fields[g].name_or_names) |->
             [name |-> fields[g].name_or_names[j], address |-> OffsetOf(g),
              bit |-> IF fields[g].is_list THEN j - 1 ELSE -1]]
         \o C15_Placement(g + 1)

\* C15: the sequence of leaf fields produced by the type resolver is exactly
\* the source declaration order under depth-first expansion (struct members in
\* order, substituted TYPE bodies inline, array elements by ascending index),
\* and the layout assigns addresses that increase strictly in that order
\* (comparing (byte offset, bit position)).
C15_DeclarationOrder ==
    Loaded =>
        LET placed == C15_Placement(1) IN
        /\ C15_NumericBounds => Len(name_type_pairs) = C15_LeafCount(tree.data)
        /\ \A j, k \in 1..Len(name_type_pairs) :
              j < k => C15_Before(tree.data, name_type_pairs[j].name,
                                  name_type_pairs[k].name, 1)
        /\ Len(placed) = Len(name_type_pairs)
        /\ \A k \in 1..Len(placed) :
              /\ "DB." \o placed[k].name = _join_name_parts(name_type_pairs[k].name, ".")
              /\ placed[k].bit >= 0 <=> name_type_pairs[k].type = "Bool"
              /\ k > 1 =>
                    \/ placed[k - 1].address < placed[k].address
                    \/ /\ placed[k - 1].address = placed[k].address
                       /\ placed[k - 1].bit < placed[k].bit
              /\ (pc = "ready" /\ \A o \in 1..Len(placed) :
                                     o # k => placed[o].name # placed[k].name)
                 => /\ mapping[placed[k].name].address = placed[k].address
                    /\ mapping[placed[k].name].bit = placed[k].bit

\* a nested TYPE (a struct inside a struct) and an array of booleans have
\* been loaded: six leaves, the second array element is bit 1 at byte 8
C15_Witness ==
    /\ pc = "ready"
    /\ Len(DBMembers) = 2
    /\ DBMembers[1] = Member("n", Leaf("Outer"))
    /\ DBMembers[2] = Member("X", Array(<<"1">>, <<"2">>, "Bool"))
    /\ [k \in 1..Len(name_type_pairs) |-> _join_name_parts(name_type_pairs[k].name, ".")]
          = <<"DB.n.h", "DB.n.in.A", "DB.n.in.B", "DB.n.g", "DB.X[1]", "DB.X[2]">>
    /\ mapping["n.in.B"] = ByteAddress(4, "h")
    /\ mapping["X[2]"] = BitAddress(8, 1)

(* -------------------------------- C16 ---------------------------------- *)
RECURSIVE C16_Uses(_)
\* the declared types the declaration of node refers to directly: the type
\* of a member, the element type of an array
C16_Uses(node) ==
    CASE node.kind = "str" -> {node.type} \cap DOMAIN tree.types
      [] node.kind = "array" -> {node.type} \cap DOMAIN tree.types
      [] node.kind = "dict" ->
            UNION {C16_Uses(node.members[j].node) : j \in 1..Len(node.members)}

RECURSIVE C16_Closure(_, _)
\* the types referred to from the types of from in at most n further steps
C16_Closure(from, n) ==
    IF n = 0 THEN from
    ELSE C16_Closure(from \cup UNION {C16_Uses(tree.types[t]) : t \in from}, n - 1)

C16_Reach(from) == C16_Closure(from, Cardinality(DOMAIN tree.types))

\* the data block uses a type that references itself, directly or through a
\* chain of other types
C16_ReachesCycle ==
    \E t \in C16_Reach(C16_Uses(tree.data)) : t \in C16_Reach(C16_Uses(tree.types[t]))

\* C16: type resolution over a TYPE table in which some type references
\* itself directly or through a chain of other types (as a member type or as
\* an array element type) terminates by reporting an error; it never recurses
\* without bound.
C16_CycleReported ==
    (pc # "text" /\ C16_ReachesCycle) =>
        /\ pc = "failed"
        /\ last.op = "parse" /\ last.err # "none"
        /\ fields = <<>> /\ mapping = <<>>

(* -------------------------------- C17 ---------------------------------- *)
\* the text of a bound is not a numeric literal
C17_NotNumeric(text) == Len(text) = 0 \/ \E k \in 1..Len(text) : ~IsDigit(text[k])

\* C17: an array whose lower or upper bound is not a numeric literal and
\* cannot be resolved to an integer makes the load fail with a fatal error;
\* no array is expanded with a guessed or default bound.
C17_SymbolicBoundFatal ==
    \A m \in 1..Len(DBMembers) :
        (/\ pc # "text"
         /\ DBMembers[m].node.kind = "array"
         /\ C17_NotNumeric(DBMembers[m].node.lower) \/ C17_NotNumeric(DBMembers[m].node.upper))
        => /\ pc = "failed"
           /\ last.err # "none"
           /\ ~\E k \in 1..Len(name_type_pairs) :
                 name_type_pairs[k].name[2] = Seg(DBMembers[m].name)

(* -------------------------------- C18 ---------------------------------- *)
\* the primitive types of the fixed enumeration
C18_Primitives == DOMAIN s7_dtype_to_struct_mapping \cup {"DTL"}

RECURSIVE C18_HasUnknownType(_)
\* some field declared below node has a type, or an array an element type,
\* that is neither a declared TYPE nor a primitive
C18_HasUnknownType(node) ==
    CASE node.kind \in {"str", "array"} ->
            node.type \notin (DOMAIN tree.types \cup C18_Primitives)
      [] node.kind = "dict" ->
            \E j \in 1..Len(node.members) : C18_HasUnknownType(node.members[j].node)

\* C18: loading a definition in which some field's type (or an array's
\* element type) is neither a declared TYPE nor a primitive of the fixed
\* enumeration fails with an error raised to the caller of the load; the load
\* never returns a layout that omits, skips or mis-types such a field.
C18_UnknownTypeFails ==
    (pc # "text" /\ C18_HasUnknownType(tree.data)) =>
        /\ pc = "failed"
        /\ last.op = "parse" /\ last.err # "none"
        /\ fields = <<>> /\ mapping = <<>>

(* -------------------------------- C19 ---------------------------------- *)
\* C19: loading an external byte source of any length n into a block whose
\* layout has total size s never raises: the resulting buffer has length
\* exactly s, its first min(n, s) bytes equal the source's first min(n, s)
\* bytes, and when n < s the remaining s - n bytes are zero.
C19_LoadFits ==
    (pc = "mini" /\ last.op = "load") =>
        LET n == Len(source)
            s == size
        IN /\ last.err = "none"
           /\ Len(buffer) = s
           /\ \A idx \in 1..s :
                 buffer[idx] = IF idx <= n THEN source[idx] ELSE 0

\* a source of 3 bytes was loaded into a block of 8: three bytes of the
\* source, then five zero bytes
C19_Witness ==
    /\ pc = "mini" /\ last.op = "load"
    /\ size = 8 /\ Len(source) = 3
    /\ buffer = <<source[1], source[2], source[3], 0, 0, 0, 0, 0>>
    /\ source[3] # 0

(* -------------------------------- C20 ---------------------------------- *)
\* C20: the buffer is never resized: for a data block built from a layout,
\* len(buffer) equals the layout's total size (db_size) initially and after
\* every sequence of Get, Set, pull from the device, and restoration of a
\* saved buffer by a project load.
C20_NeverResized == pc = "ready" => Len(buffer) = db_size

(* -------------------------------- C21 ---------------------------------- *)
\* the 16-bit word whose most significant byte is buf[o] (index o + 1 here)
C21_Word(buf, o) == 256 * buf[o + 1] + buf[o + 2]

\* two's-complement reading of a 16-bit word
C21_Signed16(n) == ((n + 32768) % 65536) - 32768

\* the Python int n as a value, -65536 <= n < 65536
C21_Int(n) == IF n < 0 THEN PyInt(-1, n + 65536) ELSE PyInt(0, n)

\* the value the claim gives a multi-byte integer field at offset o: the
\* upper 16 bits carry the sign of a signed 32-bit type
C21_Decoded(buf, o, format_char) ==
    CASE format_char = "h" -> C21_Int(C21_Signed16(C21_Word(buf, o)))
      [] format_char = "H" -> C21_Int(C21_Word(buf, o))
      [] format_char = "i" -> PyInt(C21_Signed16(C21_Word(buf, o)), C21_Word(buf, o + 2))
      [] format_char = "I" -> PyInt(C21_Word(buf, o), C21_Word(buf, o + 2))

\* the last operation was a Get of a 16-bit or 32-bit integer scalar
C21_IntegerGet ==
    /\ pc = "ready" /\ last.op = "get" /\ KnownName(last.name)
    /\ ~mapping[last.name].is_tuple
    /\ mapping[last.name].format \in {"h", "H", "i", "I"}

\* C21: multi-byte integer scalars are decoded big-endian with
\* two's-complement sign extension for signed types: Get of a signed 16-bit
\* field at offset o returns ((256*buf[o] + buf[o+1] + 2^15) mod 2^16) - 2^15,
\* Get of an unsigned 16-bit field returns 256*buf[o] + buf[o+1], and the
\* 32-bit types follow the same rule over 4 bytes.
C21_BigEndianDecode ==
    C21_IntegerGet =>
        /\ last.err = "none"
        /\ last.ret = C21_Decoded(buffer, mapping[last.name].address,
                                  mapping[last.name].format)

\* a Get of a signed field whose first byte has the sign bit set and whose
\* bytes differ, so that the byte order shows
C21_Witness ==
    /\ C21_IntegerGet
    /\ mapping[last.name].format \in {"h", "i"}
    /\ buffer[mapping[last.name].address + 1] >= 128
    /\ buffer[mapping[last.name].address + 1] # buffer[mapping[last.name].address + 2]
    /\ last.ret.hi < 0

(* -------------------------------- C22 ---------------------------------- *)
\* the value of the boolean at info in the buffer buf
C22_Bit(buf, info) == BitOf(struct_unpack_le_H(Slice(buf, info.address, info.address + 2)).n,
                            info.bit)

C22_Booleans == {n \in DOMAIN mapping : IsBitAddress(mapping[n])}

\* thread t completes a Set of a boolean in this step, and no other
\* operation took a step while the Set was running
C22_SerializedSet(t) ==
    /\ threads[t].pc = "store" /\ threads'[t].pc = "done"
    /\ threads[t].alone
    /\ threads[t].name \in C22_Booleans

C23_Maximum(before, byte_index, max_len) ==
    IF max_len = NoMaxLen THEN before[byte_index + 1] ELSE max_len

\* the buffer before the Set holds a string field of maximum length m at
\* byte_index (one byte for m, one for the current length, m content bytes)
\* and the value is made of single-byte characters
C23_FieldSet(before, byte_index, value, m) ==
    /\ m >= 0 /\ m <= 255
    /\ byte_index + 2 + m <= Len(before)
    /\ \A k \in 1..Len(value) : value[k] <= 255

\* this step is a Set on such a field
C23_SetOnField ==
    /\ pc = "string" /\ pc' = "stored"
    /\ (last'.max_len = NoMaxLen => last'.name < Len(buffer))
    /\ C23_FieldSet(buffer, last'.name, last'.value,
                    C23_Maximum(buffer, last'.name, last'.max_len))

\* C23: for a length-prefixed string field with maximum length m at index i,
\* Set with a value of n single-byte characters stores m in byte i, min(n, m)
\* in byte i+1, the first min(n, m) characters in the following bytes and
\* zero in the remaining m - min(n, m) content bytes; a following Get returns
\* exactly the first min(n, m) characters of the value.
C23_StringSetGet ==
    [][C23_SetOnField =>
          LET i == last'.name
              value == last'.value
              n == Len(value)
              m == C23_Maximum(buffer, i, last'.max_len)
              cur == IF n < m THEN n ELSE m
          IN /\ last'.err = "none"
             /\ Len(buffer') = Len(buffer)
             /\ buffer'[i + 1] = m
             /\ buffer'[i + 2] = cur
             /\ \A k \in 1..cur : buffer'[i + 2 + k] = value[k]
             /\ \A k \in (cur + 1)..m : buffer'[i + 2 + k] = 0
             /\ get_s7_string(buffer', i) = [err |-> "none", ret |-> SubSeq(value, 1, cur)]]_vars

\* a Set of one character on a field of maximum length 2 whose content
\* bytes were not zero (byte 3 is zero now, the byte after the field is
\* not), followed by the Get of the field
C23_Witness ==
    /\ pc = "stored" /\ last.op = "get_s7_string" /\ last.err = "none"
    /\ last.name = 0
    /\ Len(buffer) > 4
    /\ buffer[1] = 2 /\ buffer[2] = 1 /\ buffer[3] = 255 /\ buffer[4] = 0
    /\ buffer[5] # 0
    /\ last.ret = <<255>>

(* -------------------------------- C24 ---------------------------------- *)
\* the byte offset fields_to_mapping gave the g-th physical field
C24_AddressOf(g) == mapping[fields[g].name_or_names[1]].address

RECURSIVE C24_SumWidths(_)
\* the widths of the first g physical fields together
C24_SumWidths(g) == IF g = 0 THEN 0 ELSE C24_SumWidths(g - 1) + WidthOf(fields[g])

\* C24: the addresses assigned by fields_to_mapping tile the buffer: the
\* byte ranges of scalars (their type's width) and of BoolGroups (2 bytes
\* each) are pairwise disjoint and contiguous from offset 0 in list order,
\* and the size it returns (db_size, the allocated buffer length) equals the
\* total size computed by generate_struct_format, the sum of those widths
\* with no padding.
C24_Tiling ==
    pc = "ready" =>
        /\ \A g \in 1..Len(fields) :
              \A k \in 1..Len(fields[g].name_or_names) :
                  mapping[fields[g].name_or_names[k]].address = C24_AddressOf(g)
        /\ Len(fields) > 0 => C24_AddressOf(1) = 0
        /\ \A g \in 1..(Len(fields) - 1) :
              C24_AddressOf(g + 1) = C24_AddressOf(g) + WidthOf(fields[g])
        /\ \A g \in 1..Len(fields), h \in 1..Len(fields) :
              g < h => C24_AddressOf(g) + WidthOf(fields[g]) <= C24_AddressOf(h)
        /\ db_size = C24_SumWidths(Len(fields))
        /\ db_size = size
        /\ Len(buffer) = db_size

\* a group, a scalar of one byte and a second group: the second group
\* starts on an odd offset
C24_Witness ==
    /\ pc = "ready"
    /\ Len(fields) = 3
    /\ fields[1].is_list /\ ~fields[2].is_list /\ fields[3].is_list
    /\ C24_AddressOf(3) = 3
    /\ db_size = 5

(* ------------------------------- C25 ----------------------------------- *)
\* the cell of box k of self.boxes on its belt
C25_Cell(k) == CellOf(boxes[k].t, belts[boxes[k].belt].width_ticks)

\* C25: in every state reachable through View.tick no two boxes of
\* self.boxes are on the same belt in the same cell, the cell of a box being
\* floor(clamp(t, 0, 0.999) * width_ticks)
C25_OneBoxPerCell ==
    pc = "view" =>
        \A i, j \in 1..Len(boxes) :
            (i # j /\ boxes[i].belt = boxes[j].belt) => C25_Cell(i) # C25_Cell(j)

\* C25 witness: after a tick a box waits with the motor on, its next step
\* leading into the cell of the box in front of it on the same belt
C25_Witness ==
    /\ pc = "view"
    /\ last.op = "tick"
    /\ \E i, j \in 1..Len(boxes) :
          /\ i # j
          /\ boxes[i].belt = boxes[j].belt
          /\ VarGet(VARS, belts[boxes[i].belt].motor_var)
          /\ C25_Cell(i) # C25_Cell(j)
          /\ CellOf(FloatAdd(boxes[i].t, StepT(sim_speed)), belts[boxes[i].belt].width_ticks)
                = C25_Cell(j)

(* ------------------------------- C26 ----------------------------------- *)
\* the generator's first downstream node can take a box: a Belt whose cell 0
\* is unoccupied, or an ExitBlock with a free slot
C26_CanTake ==
    LET dsts == {k \in 1..Len(downstream) : downstream[k][1] = "gen"}
        first == downstream[CHOOSE k \in dsts : \A j \in dsts : k <= j][2]
    IN /\ dsts # {}
       /\ \/ /\ first \in DOMAIN belts
             /\ ~\E k \in 1..Len(boxes) :
                    boxes[k].belt = first /\ CellOf(boxes[k].t, belts[first].width_ticks) = 0
          \/ /\ first \in DOMAIN exits
             /\ \E i \in 1..Len(exits[first].slots) : exits[first].slots[i] = NoSlot

\* the elapsed time has reached the interval once the generator's timer has
\* run in this tick (a stopped generator's timer does not run)
C26_Elapsed ==
    IF generator.running
    THEN generator.elapsed_ms + DtMs(sim_speed) >= generator.interval_ms
    ELSE generator.elapsed_ms >= generator.interval_ms

\* C26: a View.tick spawns at most one box, and one only if the first
\* downstream node of the generator can take it and the elapsed time has
\* reached the interval or the generator was already blocked; after a spawn
\* elapsed_ms is 0 and the generator is not blocked
C26_SpawnRule ==
    [][(pc = "view" /\ last'.op = "tick") =>
          /\ items' - items = last'.spawned
          /\ last'.spawned <= 1
          /\ last'.spawned = 1 =>
                /\ C26_CanTake
                /\ C26_Elapsed \/ generator_blocked
                /\ generator'.elapsed_ms = 0
                /\ ~generator_blocked'
                /\ ~generator'.blocked]_vars

\* C26 witness: a tick has spawned a box for a generator that was blocked
\* when the tick began, and left it unblocked with elapsed_ms 0
C26_Witness ==
    /\ pc = "view"
    /\ last.op = "tick"
    /\ last.spawned = 1
    /\ last.waited
    /\ generator.elapsed_ms = 0
    /\ ~generator_blocked

(* ------------------------------- C27 ----------------------------------- *)
\* the first downstream node of a belt, "none" when it has no link
C27_Next(belt) ==
    LET dsts == {k \in 1..Len(downstream) : downstream[k][1] = belt} IN
    IF dsts = {} THEN "none" ELSE downstream[CHOOSE k \in dsts : \A j \in dsts : k <= j][2]

\* box k of self.boxes reaches the end of its belt in the coming tick
C27_ReachesEnd(k) ==
    /\ VarGet(VARS, belts[boxes[k].belt].motor_var)
    /\ FloatAdd(boxes[k].t, StepT(sim_speed)) >= End

\* box k cannot leave its belt: no downstream link, a downstream belt that
\* another box occupies during the whole tick, or a downstream exit with no
\* free slot
C27_NoWay(k) ==
    LET next == C27_Next(boxes[k].belt) IN
    \/ next = "none"
    \/ /\ next \in DOMAIN belts
       /\ \E i \in 1..Len(boxes), j \in 1..Len(boxes') :
             /\ boxes[i].belt = next
             /\ boxes'[j].belt = next
             /\ boxes'[j].item = boxes[i].item
    \/ /\ next \in DOMAIN exits
       /\ \A i \in 1..Len(exits[next].slots) : exits[next].slots[i] # NoSlot

\* the box `item` was handed to an exit that had a free slot and now holds it
C27_Handed(item) ==
    \E e \in DOMAIN exits :
        /\ \E n \in 1..Len(last'.handed) : last'.handed[n] = <<item, e>>
        /\ \E i \in 1..Len(exits[e].slots) : exits[e].slots[i] = NoSlot
        /\ \E i \in 1..Len(exits'[e].slots) : exits'[e].slots[i].item = item

\* C27: a View.tick discards no box: every box of self.boxes is afterwards
\* still in self.boxes, once and on a belt, short of the end (t <= 0.999),
\* unless it was handed to an ExitBlock that could accept it; and a box that
\* reaches the end of its belt and cannot leave it is held there at t = 0.999
C27_NoBoxDiscarded ==
    [][(pc = "view" /\ last'.op = "tick") =>
          /\ \A j \in 1..Len(boxes') :
                /\ boxes'[j].belt \in DOMAIN belts
                /\ boxes'[j].t <= Held
                /\ \A i \in 1..Len(boxes') : boxes'[i].item = boxes'[j].item => i = j
          /\ \A k \in 1..Len(boxes) :
                /\ (\E j \in 1..Len(boxes') : boxes'[j].item = boxes[k].item)
                      # C27_Handed(boxes[k].item)
                /\ (C27_ReachesEnd(k) /\ C27_NoWay(k)) =>
                      \E j \in 1..Len(boxes') :
                          /\ boxes'[j].item = boxes[k].item
                          /\ boxes'[j].belt = boxes[k].belt
                          /\ boxes'[j].t = Held]_vars

\* C27 witness: after a tick a box is held at t = 0.999 with its motor on, in
\* front of an exit that has no free slot
C27_Witness ==
    /\ pc = "view"
    /\ last.op = "tick"
    /\ \E k \in 1..Len(boxes) :
          /\ boxes[k].t = Held
          /\ VarGet(VARS, belts[boxes[k].belt].motor_var)
          /\ C27_Next(boxes[k].belt) \in DOMAIN exits
          /\ \A i \in 1..Len(exits[C27_Next(boxes[k].belt)].slots) :
                exits[C27_Next(boxes[k].belt)].slots[i] # NoSlot

\* after a tick a box is held at t = 0.999 with its motor on, behind a belt
\* that is occupied
C27_HeldBehindBelt ==
    /\ pc = "view"
    /\ last.op = "tick"
    /\ \E k \in 1..Len(boxes) :
          /\ boxes[k].t = Held
          /\ VarGet(VARS, belts[boxes[k].belt].motor_var)
          /\ C27_Next(boxes[k].belt) \in DOMAIN belts
          /\ \E i \in 1..Len(boxes) : boxes[i].belt = C27_Next(boxes[k].belt)

\* after a tick a box is held at t = 0.999 on a belt without a downstream link
C27_HeldNoLink ==
    /\ pc = "view"
    /\ last.op = "tick"
    /\ \E k \in 1..Len(boxes) : boxes[k].t = Held /\ C27_Next(boxes[k].belt) = "none"

\* a tick has handed a box to an exit
C27_HandedOver == pc = "view" /\ last.op = "tick" /\ last.handed # <<>>

(* ------------------------------- C28 ----------------------------------- *)
\* some box is in cell idx of the belt
C28_BoxInCell(belt, idx) ==
    \E k \in 1..Len(boxes) :
        boxes[k].belt = belt /\ CellOf(boxes[k].t, belts[belt].width_ticks) = idx

\* C28: after every View.tick, for each belt, FT In is true exactly when some
\* box is in the first cell of the belt and FT Out exactly when some box is
\* in its last cell, and the variables bound to enabled sensors carry those
\* values
C28_SensorsFollowBoxes ==
    (pc = "view" /\ last.op = "tick") =>
        \A b \in DOMAIN belts :
            /\ belts[b].ft_in_state = C28_BoxInCell(b, 0)
            /\ belts[b].ft_out_state = C28_BoxInCell(b, belts[b].width_ticks - 1)
            /\ (belts[b].ft_in_enabled /\ belts[b].ft_in_var # "") =>
                  VARS[belts[b].ft_in_var] = C28_BoxInCell(b, 0)
            /\ (belts[b].ft_out_enabled /\ belts[b].ft_out_var # "") =>
                  VARS[belts[b].ft_out_var] = C28_BoxInCell(b, belts[b].width_ticks - 1)

(* ------------------------------- C30 ----------------------------------- *)
\* C30: while the generator is stopped (running is False) no View.tick
\* spawns a box, whatever its elapsed time and blocked state were when it was
\* stopped
C30_StoppedNoSpawn ==
    [][(pc = "view" /\ last'.op = "tick" /\ ~generator.running) =>
          (last'.spawned = 0 /\ items' = items)]_vars

(* ------------------------------- C29 ----------------------------------- *)
C29_Slots == exits["e1"].slots

\* the box `item` is in the exit / in its rightmost slot
C29_InExit(item) == \E i \in 1..Len(C29_Slots) : C29_Slots[i].item = item

C29_InRightmost(item) == C29_Slots[Len(C29_Slots)].item = item

C29_Empty == \A i \in 1..Len(C29_Slots) : C29_Slots[i] = NoSlot

\* a box leaves the exit only from the rightmost slot, in a tick that brings
\* its time there to dwell_ms; time is counted in the rightmost slot only
C29_RemovedFromRightmost ==
    /\ [][pc = "exit" =>
             \A item \in 1..MaxExitBoxes :
                 (C29_InExit(item) /\ ~C29_InExit(item)') =>
                     /\ last'.op = "tick"
                     /\ C29_InRightmost(item)
                     /\ C29_Slots[Len(C29_Slots)].elapsed + last'.dt_ms
                           >= exits["e1"].dwell_ms]_vars
    /\ [](pc = "exit" =>
             \A i \in 1..(Len(C29_Slots) - 1) :
                 C29_Slots[i] # NoSlot => C29_Slots[i].elapsed = 0)

\* C29: under repeated ExitBlock.tick(dt) with dt > 0 every box accepted by
\* add_box eventually reaches the rightmost slot and is removed once it has
\* been there for dwell_ms, so an exit that receives no further boxes
\* becomes empty and stays so; a box is removed only from the rightmost slot
C29_ExitDrains ==
    /\ C29_RemovedFromRightmost
    /\ \A item \in 1..MaxExitBoxes :
          /\ C29_InExit(item) ~> C29_InRightmost(item)
          /\ C29_InRightmost(item) ~> ~C29_InExit(item)
    /\ (items = MaxExitBoxes) ~> [](pc = "exit" => C29_Empty)

\* C29 witness: the exit is full, a box accepted in its leftmost slot waits
\* behind one that has spent time in the rightmost slot
C29_Witness ==
    /\ pc = "exit"
    /\ Len(C29_Slots) > 1
    /\ \A i \in 1..Len(C29_Slots) : C29_Slots[i] # NoSlot
    /\ C29_Slots[Len(C29_Slots)].elapsed > 0
    /\ C29_Slots[1].item > C29_Slots[Len(C29_Slots)].item

\* an exit that held boxes is empty again after a tick
C29_Drained == pc = "exit" /\ items = MaxExitBoxes /\ C29_Empty /\ last.op = "tick"

====
